---- MODULE Spec2Model ----
(***************************************************************************)
(* Model of the agent state machine engine (agentsm): the engine loop,     *)
(* the built-in state handlers, the transition table, the retry wrapper    *)
(* and the checkpoint hook, translated from the Rust sources.              *)
(*                                                                         *)
(* Conventions: Option<T> is a sequence of length 0 (None) or 1 (Some);    *)
(* a formatted string is the tuple of its parts, so that starts_with and   *)
(* contains are real tests on what format! produced.                       *)
(***************************************************************************)
EXTENDS Integers, Sequences, FiniteSets, TLC

\* ------------------------------------------------------------------------
\* Bounds of the model
\* ------------------------------------------------------------------------

\* largest config.max_steps explored
MaxStepsBound == 2

\* largest max_retries of the retry wrapper explored
MaxLlmRetries == 3

\* modulus of the scaled-down unsigned word that stands for u32
WordModulus == 64

\* ------------------------------------------------------------------------
\* Option helpers
\* ------------------------------------------------------------------------

None == <<>>

Some(x) == <<x>>

IsSome(o) == Len(o) > 0

Unwrap(o) == o[1]

Range(s) == {s[i] : i \in 1..Len(s)}

\* str.starts_with(p) / str.contains(p) on a formatted string
StartsWith(str, p) == Len(str) > 0 /\ str[1] = p

Contains(str, p) == p \in Range(str)

\* ------------------------------------------------------------------------
\* States and the transition table
\* ------------------------------------------------------------------------

TerminalStates == {"Done", "Error"}

\* handlers registered by AgentBuilder::build
Handlers == {"Idle", "Planning", "Acting", "ParallelActing", "Observing",
             "Reflecting", "Done", "Error", "WaitingForHuman"}

build_transition_table ==
    (<<"Idle", "Start">> :> "Planning")
    @@ (<<"Planning", "LlmToolCall">> :> "Acting")
    @@ (<<"Planning", "LlmFinalAnswer">> :> "Done")
    @@ (<<"Planning", "MaxSteps">> :> "Error")
    @@ (<<"Planning", "LowConfidence">> :> "Reflecting")
    @@ (<<"Planning", "AnswerTooShort">> :> "Planning")
    @@ (<<"Planning", "ToolBlacklisted">> :> "Planning")
    @@ (<<"Planning", "FatalError">> :> "Error")
    @@ (<<"Acting", "ToolSuccess">> :> "Observing")
    @@ (<<"Acting", "ToolFailure">> :> "Observing")
    @@ (<<"Acting", "FatalError">> :> "Error")
    @@ (<<"Observing", "Continue">> :> "Planning")
    @@ (<<"Observing", "NeedsReflection">> :> "Reflecting")
    @@ (<<"Reflecting", "ReflectDone">> :> "Planning")

\* Edges a user can add with AgentBuilder::transition() to wire the
\* ParallelActing and WaitingForHuman handlers into the graph.
ParallelHumanEdges ==
    (<<"Planning", "LlmParallelToolCalls">> :> "ParallelActing")
    @@ (<<"Planning", "HumanApprovalRequired">> :> "WaitingForHuman")
    @@ (<<"ParallelActing", "ToolSuccess">> :> "Observing")
    @@ (<<"ParallelActing", "ToolFailure">> :> "Observing")
    @@ (<<"WaitingForHuman", "HumanApproved">> :> "Acting")
    @@ (<<"WaitingForHuman", "HumanRejected">> :> "Observing")
    @@ (<<"WaitingForHuman", "HumanModified">> :> "Acting")

\* A user-added cycle: MaxSteps no longer leaves Planning, and a too short
\* answer leads to a state that has no handler.
CycleEdges ==
    (<<"Planning", "MaxSteps">> :> "Planning")
    @@ (<<"Planning", "AnswerTooShort">> :> "Review")

\* custom_transitions given to the builder, by name
CustomTransitions(name) ==
    CASE name = "default"  -> << >>
      [] name = "extended" -> ParallelHumanEdges
      [] name = "cyclic"   -> CycleEdges @@ ParallelHumanEdges

TableChoices == {"default", "extended", "cyclic"}

\* AgentBuilder::build: custom edges are inserted after the defaults and
\* override them
MergedTable(name) == CustomTransitions(name) @@ build_transition_table

\* ------------------------------------------------------------------------
\* Token usage and budget
\* ------------------------------------------------------------------------

\* The fields are u32. TLC's integers stop below 2^32, so the word is scaled
\* down: arithmetic is modulo WordModulus, which stands for 2^32.
U32 == WordModulus

TokenUsageNew(i, o) ==
    [input_tokens |-> i, output_tokens |-> o, total_tokens |-> (i + o) % U32]

ZeroUsage == [input_tokens |-> 0, output_tokens |-> 0, total_tokens |-> 0]

TokenUsageAdd(a, b) ==
    [input_tokens  |-> (a.input_tokens + b.input_tokens) % U32,
     output_tokens |-> (a.output_tokens + b.output_tokens) % U32,
     total_tokens  |-> (a.total_tokens + b.total_tokens) % U32]

\* a slip that compares the output count with the total cap
is_exceeded_wrong_field(budget, usage) ==
    \/ IsSome(budget.max_total_tokens)
         /\ usage.output_tokens > Unwrap(budget.max_total_tokens)
    \/ IsSome(budget.max_input_tokens)
         /\ usage.input_tokens > Unwrap(budget.max_input_tokens)
    \/ IsSome(budget.max_output_tokens)
         /\ usage.output_tokens > Unwrap(budget.max_output_tokens)

is_exceeded(budget, usage) ==
    \/ IsSome(budget.max_total_tokens)
         /\ usage.total_tokens > Unwrap(budget.max_total_tokens)
    \/ IsSome(budget.max_input_tokens)
         /\ usage.input_tokens > Unwrap(budget.max_input_tokens)
    \/ IsSome(budget.max_output_tokens)
         /\ usage.output_tokens > Unwrap(budget.max_output_tokens)

TokenBudgetNew(max_total) ==
    [max_total_tokens |-> Some(max_total), max_input_tokens |-> None,
     max_output_tokens |-> None]

\* ------------------------------------------------------------------------
\* Human approval policy
\* ------------------------------------------------------------------------

\* RiskLevel derives Ord in declaration order
RiskOrd(r) ==
    CASE r = "Low" -> 0 [] r = "Medium" -> 1 [] r = "High" -> 2
      [] r = "Critical" -> 3

\* ToolBased policies carry a map tool -> risk; absent tools are Low
RiskOf(map, tool_name) ==
    IF tool_name \in DOMAIN map THEN map[tool_name] ELSE "Low"

needs_approval(policy, tool_name) ==
    CASE policy.kind = "AlwaysAsk" -> TRUE
      [] policy.kind = "NeverAsk"  -> FALSE
      [] policy.kind = "AskAbove"  -> RiskOrd("Medium") >= RiskOrd(policy.threshold)
      [] policy.kind = "ToolBased" ->
            RiskOrd(RiskOf(policy.map, tool_name)) >= RiskOrd("High")

NoMap == [t \in {} |-> "Low"]

\* ApprovalPolicy::default()
DefaultPolicy == [kind |-> "AskAbove", threshold |-> "High", map |-> NoMap]

AlwaysAsk == [kind |-> "AlwaysAsk", threshold |-> "High", map |-> NoMap]

ToolBasedPolicy ==
    [kind |-> "ToolBased", threshold |-> "High",
     map |-> [t \in {"risky"} |-> "Critical"]]

PolicyChoices == {DefaultPolicy, AlwaysAsk, ToolBasedPolicy}

\* ------------------------------------------------------------------------
\* Tools
\* ------------------------------------------------------------------------

\* names registered in the ToolRegistry of the runs explored
RegisteredTools == {"dummy", "risky", "forbidden"}

\* names an LLM response can carry ("ghost" is not registered)
ToolNames == RegisteredTools \cup {"ghost"}

\* memory.blacklisted_tools of the runs explored
BlacklistedTools == {"forbidden"}

ToolCall(name, args, id) == [name |-> name, args |-> args, id |-> id]

\* a registry that runs the callable whatever the name
execute_any_name(name, res) == res

\* ToolRegistry::execute: the callable's own result for a registered name
\* (res is what the callable returns), an error for an unknown name.
\* Results are <<"Ok", text>> or <<"Err", text>>.
execute(name, res) ==
    IF name \in RegisteredTools THEN res
    ELSE <<"Err", "Tool", name, "not found in registry">>

\* what a registered callable can return
ToolOutcomes == {<<"Ok", "result">>, <<"Err", "boom">>}

\* a slip that marks every output as a success
FormatObservation_always_success(r) == <<"SUCCESS:">> \o Tail(r)

\* format!("SUCCESS: {}", result) / format!("ERROR: {}", err)
FormatObservation(r) ==
    IF r[1] = "Ok" THEN <<"SUCCESS:">> \o Tail(r) ELSE <<"ERROR:">> \o Tail(r)

\* ------------------------------------------------------------------------
\* Agent memory
\* ------------------------------------------------------------------------

\* AgentMemory::log
Log(mem, state, event) ==
    [mem EXCEPT !.trace =
        Append(@, [step |-> mem.step, state |-> state, event |-> event])]

\* AgentConfig::default() with max_steps and the knobs set by the builder
AgentConfig(max_steps, max_retries, reflect_every) ==
    [max_steps |-> max_steps, max_retries |-> max_retries,
     confidence_threshold |-> 40, reflect_every_n_steps |-> reflect_every,
     min_answer_length |-> 5, parallel_tools |-> TRUE]

\* AgentMemory::new, then the builder's setters
NewMemory(config, policy, has_callback, budget) ==
    [task |-> "task", system_prompt |-> "", step |-> 0, retry_count |-> 0,
     confidence_score |-> 100,
     current_tool_call |-> None, last_observation |-> None,
     pending_tool_calls |-> <<>>, parallel_results |-> <<>>,
     history |-> <<>>, final_answer |-> None, error |-> None,
     config |-> config, blacklisted_tools |-> BlacklistedTools,
     pending_approval |-> None, approval_policy |-> policy,
     approval_callback |-> has_callback,
     total_usage |-> ZeroUsage, budget |-> budget,
     trace |-> <<>>]

\* What a handler returns to the engine: the memory it leaves, the event,
\* and (for the observers) the tools it ran and the LLM calls it made.
Outcome(mem, event, ran, calls) ==
    [memory |-> mem, event |-> event, ran |-> ran, calls |-> calls]

\* ------------------------------------------------------------------------
\* LLM responses
\* ------------------------------------------------------------------------

\* LlmResponse, all variants in one record shape
ToolCallResponse(tool, confidence, usage) ==
    [kind |-> "ToolCall", tool |-> tool, tools |-> <<>>,
     confidence |-> confidence, content |-> <<>>, usage |-> usage]

ParallelResponse(tools, confidence, usage) ==
    [kind |-> "ParallelToolCalls", tool |-> ToolCall("", "", None),
     tools |-> tools, confidence |-> confidence, content |-> <<>>,
     usage |-> usage]

\* content is the sequence of the answer's characters
FinalAnswerResponse(content, usage) ==
    [kind |-> "FinalAnswer", tool |-> ToolCall("", "", None), tools |-> <<>>,
     confidence |-> 100, content |-> content, usage |-> usage]

\* One LLM exchange of a Planning step as the handler sees it:
\*   streamed  the stream delivered Done(resp)
\*   fallback  the stream failed (cause) and call_async returned resp
\*   failed    the stream failed (cause) and call_async failed too
Streamed(resp) == [kind |-> "streamed", cause |-> "", resp |-> resp]

Fallback(cause, resp) == [kind |-> "fallback", cause |-> cause, resp |-> resp]

Failed(cause) ==
    [kind |-> "failed", cause |-> cause,
     resp |-> FinalAnswerResponse(<<>>, None)]

\* ------------------------------------------------------------------------
\* PlanningState
\* ------------------------------------------------------------------------

\* a slip that looks the arguments up in the blacklist instead of the name
is_blacklisted_wrong_field(memory, tool) == tool.args \in memory.blacklisted_tools

\* planning.rs 30: memory.blacklisted_tools.contains(&tool.name)
is_blacklisted(memory, tool) == tool.name \in memory.blacklisted_tools

\* a variant that asks the approval policy before it looks at the confidence
handle_tool_call_approval_first(memory, tool, confidence) ==
    IF is_blacklisted(memory, tool)
    THEN Outcome(Log(memory, "Planning", "TOOL_BLACKLISTED"),
                 "ToolBlacklisted", <<>>, 0)
    ELSE IF needs_approval(memory.approval_policy, tool.name)
    THEN Outcome(Log([memory EXCEPT
                        !.pending_approval =
                            Some([tool_name |-> tool.name,
                                  tool_args |-> tool.args,
                                  risk_level |-> "High"]),
                        !.current_tool_call = Some(tool),
                        !.confidence_score = confidence],
                     "Planning", "APPROVAL_REQUIRED"),
                 "HumanApprovalRequired", <<>>, 0)
    ELSE IF confidence < memory.config.confidence_threshold
            /\ memory.retry_count < memory.config.max_retries
    THEN Outcome(Log([memory EXCEPT !.retry_count = @ + 1,
                                    !.confidence_score = confidence],
                     "Planning", "LOW_CONFIDENCE"),
                 "LowConfidence", <<>>, 0)
    ELSE Outcome(Log([memory EXCEPT
                        !.current_tool_call = Some(tool),
                        !.pending_tool_calls = <<>>,
                        !.confidence_score = confidence],
                     "Planning", "LLM_TOOL_CALL"),
                 "LlmToolCall", <<>>, 0)

handle_tool_call(memory, tool, confidence) ==
    IF is_blacklisted(memory, tool)
    THEN Outcome(Log(memory, "Planning", "TOOL_BLACKLISTED"),
                 "ToolBlacklisted", <<>>, 0)
    ELSE IF confidence < memory.config.confidence_threshold
            /\ memory.retry_count < memory.config.max_retries
    THEN Outcome(Log([memory EXCEPT !.retry_count = @ + 1,
                                    !.confidence_score = confidence],
                     "Planning", "LOW_CONFIDENCE"),
                 "LowConfidence", <<>>, 0)
    ELSE IF needs_approval(memory.approval_policy, tool.name)
    THEN Outcome(Log([memory EXCEPT
                        !.pending_approval =
                            Some([tool_name |-> tool.name,
                                  tool_args |-> tool.args,
                                  risk_level |-> "High"]),
                        !.current_tool_call = Some(tool),
                        !.confidence_score = confidence],
                     "Planning", "APPROVAL_REQUIRED"),
                 "HumanApprovalRequired", <<>>, 0)
    ELSE Outcome(Log([memory EXCEPT
                        !.current_tool_call = Some(tool),
                        !.pending_tool_calls = <<>>,
                        !.confidence_score = confidence],
                     "Planning", "LLM_TOOL_CALL"),
                 "LlmToolCall", <<>>, 0)

handle_parallel_tool_calls(memory, tools, confidence) ==
    Outcome(Log([memory EXCEPT
                    !.current_tool_call = None,
                    !.pending_tool_calls = tools,
                    !.parallel_results = <<>>,
                    !.confidence_score = confidence],
                "Planning", "LLM_PARALLEL_TOOLS"),
            "LlmParallelToolCalls", <<>>, 0)

\* a slip that stores the answer before checking its length
handle_final_answer_keeps_short(memory, content) ==
    IF Len(content) < memory.config.min_answer_length
    THEN Outcome(Log([memory EXCEPT !.final_answer = Some(content)],
                     "Planning", "ANSWER_TOO_SHORT"),
                 "AnswerTooShort", <<>>, 0)
    ELSE Outcome(Log([memory EXCEPT !.final_answer = Some(content)],
                     "Planning", "LLM_FINAL_ANSWER"),
                 "LlmFinalAnswer", <<>>, 0)

handle_final_answer(memory, content) ==
    IF Len(content) < memory.config.min_answer_length
    THEN Outcome(Log(memory, "Planning", "ANSWER_TOO_SHORT"),
                 "AnswerTooShort", <<>>, 0)
    ELSE Outcome(Log([memory EXCEPT !.final_answer = Some(content)],
                     "Planning", "LLM_FINAL_ANSWER"),
                 "LlmFinalAnswer", <<>>, 0)

\* planning.rs 222-241: add the usage, then dispatch on the variant
PlanningDispatch(memory, resp) ==
    LET m == IF IsSome(resp.usage)
             THEN [memory EXCEPT !.total_usage =
                                    TokenUsageAdd(@, Unwrap(resp.usage))]
             ELSE memory
    IN  CASE resp.kind = "ToolCall" ->
                handle_tool_call(m, resp.tool, resp.confidence)
          [] resp.kind = "ParallelToolCalls" ->
                handle_parallel_tool_calls(m, resp.tools, resp.confidence)
          [] resp.kind = "FinalAnswer" ->
                handle_final_answer(m, resp.content)

\* the trace record written when the stream did not deliver a response
StreamErrorTag(cause) ==
    IF cause = "error" THEN "LLM_STREAM_ERROR" ELSE "STREAM_ERROR"

\* the error text of a failed exchange
LlmErrorText(cause) ==
    IF cause = "error"
    THEN <<"LLM stream error:", "fallback call_async error:">>
    ELSE <<"LLM stream ended without Done chunk",
           "fallback call_async error:">>

WithCalls(out, n) == [out EXCEPT !.calls = n]

\* a guard that lets two more steps through
max_steps_reached_late(memory) == memory.step > memory.config.max_steps + 1

\* planning.rs 130: memory.step >= memory.config.max_steps
max_steps_reached(memory) == memory.step >= memory.config.max_steps

\* a handler that reports a broken stream without trying call_async
PlanningHandle_no_fallback(memory, llm) ==
    IF max_steps_reached(memory)
    THEN Outcome(Log([memory EXCEPT !.error =
                        Some(<<"Max steps", "exceeded">>)],
                     "Planning", "MAX_STEPS"),
                 "MaxSteps", <<>>, 0)
    ELSE IF IsSome(memory.budget)
            /\ is_exceeded(Unwrap(memory.budget), memory.total_usage)
    THEN Outcome(Log([memory EXCEPT !.error =
                        Some(<<"Token", "budget exceeded">>)],
                     "Planning", "BUDGET_EXCEEDED"),
                 "FatalError", <<>>, 0)
    ELSE LET m1 == Log([memory EXCEPT !.step = @ + 1],
                       "Planning", "STEP_START")
         IN  IF llm.kind = "streamed"
             THEN WithCalls(PlanningDispatch(m1, llm.resp), 1)
             ELSE Outcome(
                    Log([Log(m1, "Planning", StreamErrorTag(llm.cause))
                            EXCEPT !.error = Some(LlmErrorText(llm.cause))],
                        "Planning", "LLM_ERROR"),
                    "FatalError", <<>>, 1)

\* PlanningState::handle; llm is the exchange the LLM caller produces if
\* it is called
PlanningHandle(memory, llm) ==
    IF max_steps_reached(memory)
    THEN Outcome(Log([memory EXCEPT !.error =
                        Some(<<"Max steps", "exceeded">>)],
                     "Planning", "MAX_STEPS"),
                 "MaxSteps", <<>>, 0)
    ELSE IF IsSome(memory.budget)
            /\ is_exceeded(Unwrap(memory.budget), memory.total_usage)
    THEN Outcome(Log([memory EXCEPT !.error =
                        Some(<<"Token", "budget exceeded">>)],
                     "Planning", "BUDGET_EXCEEDED"),
                 "FatalError", <<>>, 0)
    ELSE LET m1 == Log([memory EXCEPT !.step = @ + 1],
                       "Planning", "STEP_START")
         IN  CASE llm.kind = "streamed" ->
                    WithCalls(PlanningDispatch(m1, llm.resp), 1)
               [] llm.kind = "fallback" ->
                    WithCalls(
                      PlanningDispatch(
                        Log(Log(m1, "Planning", StreamErrorTag(llm.cause)),
                            "Planning", "LLM_FALLBACK_SYNC"),
                        llm.resp), 2)
               [] llm.kind = "failed" ->
                    Outcome(
                      Log([Log(m1, "Planning", StreamErrorTag(llm.cause))
                              EXCEPT !.error = Some(LlmErrorText(llm.cause))],
                          "Planning", "LLM_ERROR"),
                      "FatalError", <<>>, 2)

\* ------------------------------------------------------------------------
\* IdleState, ActingState, ParallelActingState
\* ------------------------------------------------------------------------

IdleHandle(memory) ==
    Outcome(Log(memory, "Idle", "AGENT_STARTED"), "Start", <<>>, 0)

\* ActingState::handle; res is what the tool's callable returns if run
ActingHandle(memory, res) ==
    IF ~IsSome(memory.current_tool_call)
    THEN Outcome(Log([memory EXCEPT !.error =
                        Some(<<"ActingState called with no current_tool_call">>)],
                     "Acting", "FATAL_ERROR"),
                 "FatalError", <<>>, 0)
    ELSE LET tool_call == Unwrap(memory.current_tool_call)
             m1 == Log(memory, "Acting", "TOOL_EXECUTE")
             r  == execute(tool_call.name, res)
         IN  IF r[1] = "Ok"
             THEN Outcome(Log([m1 EXCEPT !.last_observation =
                                            Some(FormatObservation(r))],
                              "Acting", "TOOL_SUCCESS"),
                          "ToolSuccess", <<tool_call.name>>, 0)
             ELSE Outcome(Log([m1 EXCEPT !.last_observation =
                                            Some(FormatObservation(r))],
                              "Acting", "TOOL_FAILURE"),
                          "ToolFailure", <<tool_call.name>>, 0)

\* ToolResult::success / ToolResult::failure
ToolResultOf(tool_call, r) ==
    [tool_name |-> tool_call.name, tool_args |-> tool_call.args,
     id |-> tool_call.id, output |-> FormatObservation(r),
     success |-> (r[1] = "Ok")]

\* a worker whose callable panics ends in a JoinError
Abort == <<"Abort", "panic">>

WorkerOutcomes == ToolOutcomes \cup {Abort}

\* parallel_acting.rs 77-88: the joined results in spawn order, keeping
\* only the workers that returned
RECURSIVE CollectResults(_, _)
CollectResults(pending, res) ==
    IF pending = <<>> THEN <<>>
    ELSE LET rest == CollectResults(Tail(pending), Tail(res))
         IN  IF Head(res) = Abort THEN rest
             ELSE <<ToolResultOf(Head(pending),
                                 execute(Head(pending).name, Head(res)))>>
                  \o rest

SuccessCount(results) ==
    Cardinality({i \in 1..Len(results) : results[i].success})

\* a join that hands the outputs over in the order the workers finished
join_in_completion_order(done) == [k \in 1..Len(done) |-> done[k][2]]

\* join_all(tasks): done lists <<task index, output>> in the order the
\* workers finished; the outputs come back in the order of the tasks
join_all(done) ==
    [i \in 1..Len(done) |->
        done[CHOOSE k \in 1..Len(done) : done[k][1] = i][2]]

\* ParallelActingState::handle; done[k] = <<i, r>> says that the worker of
\* pending call i was the k-th to finish and what its callable did
ParallelActingHandle(memory, done) ==
    LET pending == memory.pending_tool_calls
        count   == Len(pending)
        m1      == Log(memory, "ParallelActing", "PARALLEL_ACTING_START")
        tool_results == CollectResults(pending, join_all(done))
        m2      == Log([m1 EXCEPT !.parallel_results = tool_results,
                                  !.pending_tool_calls = <<>>],
                       "ParallelActing", "PARALLEL_ACTING_DONE")
    IN  Outcome(m2,
                IF SuccessCount(tool_results) > 0 \/ count = 0
                THEN "ToolSuccess" ELSE "ToolFailure",
                [i \in 1..count |-> pending[i].name], 0)

\* ------------------------------------------------------------------------
\* ObservingState, ReflectingState, WaitingForHumanState
\* ------------------------------------------------------------------------

\* observing.rs 46-63: one history entry and one trace record per result
RECURSIVE CommitParallel(_, _)
CommitParallel(memory, results) ==
    IF results = <<>> THEN memory
    ELSE LET res == Head(results)
             m1  == Log(memory, "Observing", "HISTORY_COMMIT_PARALLEL")
         IN  CommitParallel(
               [m1 EXCEPT !.history =
                   Append(@, [step |-> memory.step,
                              tool |-> ToolCall(res.tool_name, res.tool_args,
                                                res.id),
                              observation |-> res.output,
                              success |-> res.success])],
               Tail(results))

\* a slip that leaves the observation in place
TakeToolCallOnly(memory) == [memory EXCEPT !.current_tool_call = None]

\* observing.rs 26-27: current_tool_call.take(), last_observation.take()
TakeBoth(memory) ==
    [memory EXCEPT !.current_tool_call = None, !.last_observation = None]

\* a handler that asks for reflection only after a successful observation
ObservingHandle_reflects_on_success(memory) ==
    LET tool_call   == memory.current_tool_call
        observation == memory.last_observation
        m0 == TakeBoth(memory)
        m1 == IF IsSome(tool_call) /\ IsSome(observation)
              THEN Log([m0 EXCEPT !.history =
                          Append(@, [step |-> memory.step,
                                     tool |-> Unwrap(tool_call),
                                     observation |-> Unwrap(observation),
                                     success |->
                                        StartsWith(Unwrap(observation),
                                                   "SUCCESS:")])],
                       "Observing", "HISTORY_COMMIT")
              ELSE m0
        m2 == CommitParallel([m1 EXCEPT !.parallel_results = <<>>],
                             m1.parallel_results)
        reflect_interval == memory.config.reflect_every_n_steps
    IN  IF reflect_interval > 0 /\ memory.step % reflect_interval = 0
           /\ IsSome(observation)
           /\ StartsWith(Unwrap(observation), "SUCCESS:")
        THEN Outcome(Log(m2, "Observing", "NEEDS_REFLECTION"),
                     "NeedsReflection", <<>>, 0)
        ELSE Outcome(m2, "Continue", <<>>, 0)

ObservingHandle(memory) ==
    LET tool_call   == memory.current_tool_call
        observation == memory.last_observation
        m0 == TakeBoth(memory)
        m1 == IF IsSome(tool_call) /\ IsSome(observation)
              THEN Log([m0 EXCEPT !.history =
                          Append(@, [step |-> memory.step,
                                     tool |-> Unwrap(tool_call),
                                     observation |-> Unwrap(observation),
                                     success |->
                                        StartsWith(Unwrap(observation),
                                                   "SUCCESS:")])],
                       "Observing", "HISTORY_COMMIT")
              ELSE m0
        m2 == CommitParallel([m1 EXCEPT !.parallel_results = <<>>],
                             m1.parallel_results)
        reflect_interval == memory.config.reflect_every_n_steps
    IN  IF reflect_interval > 0 /\ memory.step % reflect_interval = 0
        THEN Outcome(Log(m2, "Observing", "NEEDS_REFLECTION"),
                     "NeedsReflection", <<>>, 0)
        ELSE Outcome(m2, "Continue", <<>>, 0)

\* a handler that adds the summary to the history instead of replacing it
ReflectingHandle_appends(memory) ==
    LET m1 == Log(memory, "Reflecting", "COMPRESS_START")
        summary_entry ==
            [step |-> memory.step,
             tool |-> ToolCall("[SUMMARY]", "", None),
             observation |-> <<"Compressed", ToString(Len(memory.history)),
                               "tool call(s). Task:", memory.task>>,
             success |-> TRUE]
    IN  Outcome(Log([m1 EXCEPT !.history = Append(@, summary_entry),
                               !.retry_count = 0],
                    "Reflecting", "COMPRESS_DONE"),
                "ReflectDone", <<>>, 0)

ReflectingHandle(memory) ==
    LET m1 == Log(memory, "Reflecting", "COMPRESS_START")
        summary_entry ==
            [step |-> memory.step,
             tool |-> ToolCall("[SUMMARY]", "", None),
             observation |-> <<"Compressed", ToString(Len(memory.history)),
                               "tool call(s). Task:", memory.task>>,
             success |-> TRUE]
    IN  Outcome(Log([m1 EXCEPT !.history = <<summary_entry>>,
                               !.retry_count = 0],
                    "Reflecting", "COMPRESS_DONE"),
                "ReflectDone", <<>>, 0)

\* HumanDecision
Approved == [kind |-> "Approved", reason |-> "", tool_name |-> "", tool_args |-> ""]

Rejected(reason) ==
    [kind |-> "Rejected", reason |-> reason, tool_name |-> "", tool_args |-> ""]

Modified(tool_name, tool_args) ==
    [kind |-> "Modified", reason |-> "", tool_name |-> tool_name,
     tool_args |-> tool_args]

\* a patch that builds a new call and so loses the id of the proposed one
apply_modification_drops_id(tc, decision) ==
    ToolCall(decision.tool_name, decision.tool_args, None)

\* waiting_for_human.rs 70-73: name and args of the call are overwritten
apply_modification(tc, decision) ==
    [tc EXCEPT !.name = decision.tool_name, !.args = decision.tool_args]

\* WaitingForHumanState::handle; decision is what the callback returns if
\* it is invoked
WaitingForHumanHandle(memory, decision) ==
    IF ~IsSome(memory.pending_approval)
    THEN Outcome(Log([memory EXCEPT !.error =
                        Some(<<"WaitingForHumanState called with no pending_approval">>)],
                     "WaitingForHuman", "FATAL_ERROR"),
                 "FatalError", <<>>, 0)
    ELSE LET m1 == Log([memory EXCEPT !.pending_approval = None],
                       "WaitingForHuman", "APPROVAL_REQUEST")
         IN  IF ~memory.approval_callback
             THEN Outcome(Log([m1 EXCEPT !.error =
                                 Some(<<"No approval_callback registered">>)],
                              "WaitingForHuman", "FATAL_ERROR"),
                          "FatalError", <<>>, 0)
             ELSE CASE decision.kind = "Approved" ->
                         Outcome(Log(m1, "WaitingForHuman", "APPROVED"),
                                 "HumanApproved", <<>>, 0)
                    [] decision.kind = "Rejected" ->
                         Outcome([Log(m1, "WaitingForHuman", "REJECTED")
                                    EXCEPT !.last_observation =
                                       Some(<<"REJECTED:", decision.reason>>)],
                                 "HumanRejected", <<>>, 0)
                    [] decision.kind = "Modified" ->
                         Outcome(
                           LET m2 == Log(m1, "WaitingForHuman", "MODIFIED")
                           IN  IF IsSome(m2.current_tool_call)
                               THEN [m2 EXCEPT !.current_tool_call =
                                       Some(apply_modification(Unwrap(@),
                                                               decision))]
                               ELSE m2,
                           "HumanModified", <<>>, 0)

\* ------------------------------------------------------------------------
\* Inputs explored: what the LLM, the tools and the human can answer
\* ------------------------------------------------------------------------

UsageChoices == {None, Some(TokenUsageNew(6, 0))}

BudgetChoices == {None, Some(TokenBudgetNew(5))}

ConfidenceChoices == {20, 100}

\* an LLM answer with empty content
EmptyAnswer == <<>>

ShortAnswer == <<"o", "k">>

LongAnswer == <<"a", "n", "s", "w", "e", "r">>

ParallelBatches ==
    {<<>>,
     <<ToolCall("dummy", "a0", Some("idA")), ToolCall("ghost", "a0", Some("idB"))>>,
     <<ToolCall("risky", "a0", Some("idA")), ToolCall("forbidden", "a0", Some("idB"))>>}

Responses ==
    {ToolCallResponse(ToolCall(n, "a0", Some("id1")), c, u) :
        n \in ToolNames, c \in ConfidenceChoices, u \in UsageChoices}
    \cup {ParallelResponse(b, 100, None) : b \in ParallelBatches}
    \cup {FinalAnswerResponse(EmptyAnswer, None),
          FinalAnswerResponse(ShortAnswer, None),
          FinalAnswerResponse(LongAnswer, Some(TokenUsageNew(6, 0)))}

\* responses explored for the non-streaming fallback call
FallbackResponses ==
    {ToolCallResponse(ToolCall("dummy", "a0", None), 100, Some(TokenUsageNew(6, 0))),
     FinalAnswerResponse(LongAnswer, None)}

LlmExchanges ==
    {Streamed(r) : r \in Responses}
    \cup {Fallback("error", r) : r \in FallbackResponses}
    \cup {Fallback("nodone", r) : r \in FallbackResponses}
    \cup {Failed("error"), Failed("nodone")}

Decisions == {Approved, Rejected("nope"), Modified("dummy", "a1")}

\* ------------------------------------------------------------------------
\* Engine state
\* ------------------------------------------------------------------------

VARIABLES
    state,          \* AgentEngine.state
    memory,         \* AgentEngine.memory
    transitions,    \* AgentEngine.transitions
    iterations,     \* the loop counter of run()
    pc,             \* "running" inside run(), "returned" after it
    result,         \* what run() returned
    checkpoints,    \* the checkpoint store the builder was given
    handler_calls,  \* observer: number of handle() invocations
    llm_calls,      \* observer: number of calls to the LLM caller
    executed,       \* observer: names passed to ToolRegistry::execute
    last_from,      \* observer: state of the last handler invocation
    last_event,     \* observer: event it returned
    last_input,     \* observer: what the LLM, tool or human answered in it
    attempt,        \* retry wrapper: loop variable of call_async
    inner_calls,    \* retry wrapper: outcomes of the inner calls so far
    max_retries,    \* retry wrapper: RetryingLlmCaller.max_retries
    retry_result,   \* retry wrapper: what call_async returned
    waits,          \* retry wrapper: the seconds slept before each retry
    file_store,     \* FileCheckpointStore: session file -> its JSON content
    sqlite_rows,    \* SqliteCheckpointStore: rows of table checkpoints
    saved,          \* observer: the checkpoints passed to save(), in order
    resume_result,  \* what AgentBuilder::resume(..).build() returned
    channel,        \* run_streaming: the unbounded channel (tx, rx)
    yielded,        \* run_streaming: the items the stream has yielded
    sent,           \* observer: every output passed to tx.send, in order
    stream_done,    \* run_streaming: the flag done of the unfold state
    stream_ended,   \* run_streaming: the stream has returned None
    next_id,        \* McpClient.next_id
    pending_waiters,\* McpClient.pending: request id -> waiting caller
    written,        \* McpClient.writer: ids of the requests written
    callers,        \* the tasks inside send_request_internal
    reader_running, \* McpClient: the task of run_reader_loop is alive
    session_file,   \* shared FileCheckpointStore: content of one session file
    session_list,   \* shared MemoryCheckpointStore: list of one session
    writers,        \* the tasks inside CheckpointStore::save
    acked,          \* observer: checkpoints whose save() returned Ok
    messages        \* what build_messages returned to the LLM caller

engine_vars == <<state, memory, transitions, iterations, pc, result,
                 checkpoints, handler_calls, llm_calls, executed,
                 last_from, last_event, last_input>>

retry_vars == <<attempt, inner_calls, max_retries, retry_result, waits>>

store_vars == <<file_store, sqlite_rows, saved, resume_result>>

stream_vars == <<channel, yielded, sent, stream_done, stream_ended>>

mcp_vars == <<next_id, pending_waiters, written, callers, reader_running>>

writer_vars == <<session_file, session_list, writers, acked>>

prompt_vars == <<messages>>

side_vars == <<stream_vars, mcp_vars, writer_vars, prompt_vars>>

vars == <<engine_vars, retry_vars, store_vars, side_vars>>

\* the session id the builder gave the engine
SessionId == "s1"

\* MemoryCheckpointStore::load_latest
load_latest(store, session_id) ==
    IF session_id \in DOMAIN store /\ Len(store[session_id]) > 0
    THEN Some(store[session_id][Len(store[session_id])])
    ELSE None

\* a cap of four iterations per step
safety_cap_loose == memory.config.max_steps * 4

\* run(): safety_cap = max_steps * 3
safety_cap == memory.config.max_steps * 3

EngineReturn(kind, value) == [kind |-> kind, value |-> value]

Running == [kind |-> "Running", value |-> <<>>]

EngineInit ==
    /\ state = "Idle"
    /\ \E max_steps \in 1..MaxStepsBound, policy \in PolicyChoices,
          has_callback \in BOOLEAN, budget \in BudgetChoices :
          memory = NewMemory(AgentConfig(max_steps, 1, 2), policy,
                             has_callback, budget)
    /\ \E name \in TableChoices : transitions = MergedTable(name)
    /\ iterations = 0
    /\ pc = "running"
    /\ result = Running
    /\ checkpoints = [s \in {SessionId} |-> <<>>]
    /\ handler_calls = 0
    /\ llm_calls = 0
    /\ executed = <<>>
    /\ last_from = ""
    /\ last_event = ""
    /\ last_input = None

RetryIdle ==
    /\ attempt = 0
    /\ inner_calls = <<>>
    /\ max_retries = 0
    /\ retry_result = <<>>
    /\ waits = <<>>

\* no file, no row, nothing saved, no resume attempted
StoreIdle ==
    /\ file_store = << >>
    /\ sqlite_rows = {}
    /\ saved = <<>>
    /\ resume_result = <<>>

\* run_streaming has not been called
StreamIdle ==
    /\ channel = <<>>
    /\ yielded = <<>>
    /\ sent = <<>>
    /\ stream_done = FALSE
    /\ stream_ended = FALSE

\* no MCP client has been connected
McpIdle ==
    /\ next_id = 1
    /\ pending_waiters = << >>
    /\ written = <<>>
    /\ callers = << >>
    /\ reader_running = FALSE

\* no task shares a checkpoint store
WritersIdle ==
    /\ session_file = <<>>
    /\ session_list = <<>>
    /\ writers = << >>
    /\ acked = {}

\* no LLM caller has asked for the messages
PromptIdle == messages = <<>>

SideIdle == StreamIdle /\ McpIdle /\ WritersIdle /\ PromptIdle

Init == EngineInit /\ RetryIdle /\ StoreIdle /\ SideIdle

\* step(): the handler has returned out; look up the transition and move.
\* The caller is one iteration of run()'s loop that passed the cap.
Step(out, input) ==
    /\ iterations' = iterations + 1
    /\ last_input' = input
    /\ memory' = out.memory
    /\ handler_calls' = handler_calls + 1
    /\ llm_calls' = llm_calls + out.calls
    /\ executed' = executed \o out.ran
    /\ last_from' = state
    /\ last_event' = out.event
    /\ IF <<state, out.event>> \in DOMAIN transitions
       THEN /\ state' = transitions[<<state, out.event>>]
            /\ UNCHANGED <<pc, result>>
       ELSE /\ pc' = "returned"
            /\ result' = EngineReturn("InvalidTransition", <<state, out.event>>)
            /\ UNCHANGED state
    /\ UNCHANGED <<transitions, checkpoints, retry_vars, store_vars>>
    /\ UNCHANGED side_vars

\* the loop of run() takes another iteration and invokes the handler
CanStep(name) ==
    /\ pc = "running"
    /\ state = name
    /\ state \notin TerminalStates
    /\ iterations + 1 <= safety_cap
    /\ state \in Handlers

StepIdle == CanStep("Idle") /\ Step(IdleHandle(memory), None)

StepPlanning ==
    /\ CanStep("Planning")
    /\ \E llm \in LlmExchanges :
          LET out == PlanningHandle(memory, llm)
          IN  Step(out, IF out.calls > 0 THEN Some(llm) ELSE None)

StepActing ==
    /\ CanStep("Acting")
    /\ \E res \in ToolOutcomes :
          LET out == ActingHandle(memory, res)
          IN  Step(out, IF out.ran # <<>>
                        THEN Some([kind |-> "tool", res |-> res]) ELSE None)

\* the orders in which n workers can finish
CompletionOrders(n) ==
    {order \in [1..n -> 1..n] : \A i \in 1..n : \E k \in 1..n : order[k] = i}

StepParallelActing ==
    /\ CanStep("ParallelActing")
    /\ \E res \in [1..Len(memory.pending_tool_calls) -> WorkerOutcomes],
          order \in CompletionOrders(Len(memory.pending_tool_calls)) :
          LET done == [k \in 1..Len(order) |-> <<order[k], res[order[k]]>>]
          IN  Step(ParallelActingHandle(memory, done),
                   Some([kind |-> "workers", res |-> done]))

StepObserving == CanStep("Observing") /\ Step(ObservingHandle(memory), None)

StepReflecting ==
    CanStep("Reflecting") /\ Step(ReflectingHandle(memory), None)

StepWaitingForHuman ==
    /\ CanStep("WaitingForHuman")
    /\ \E decision \in Decisions :
          LET out == WaitingForHumanHandle(memory, decision)
          IN  Step(out, IF out.event # "FatalError"
                        THEN Some(decision) ELSE None)

\* step(): no handler is registered under the state's name
NoHandlerForState ==
    /\ pc = "running"
    /\ state \notin TerminalStates
    /\ iterations + 1 <= safety_cap
    /\ state \notin Handlers
    /\ iterations' = iterations + 1
    /\ pc' = "returned"
    /\ result' = EngineReturn("NoHandlerForState", <<state>>)
    /\ UNCHANGED <<state, memory, transitions, checkpoints, handler_calls,
                   llm_calls, executed, last_from, last_event, last_input,
                   retry_vars, store_vars>>
    /\ UNCHANGED side_vars

\* run(): iterations > safety_cap
SafetyCapExceeded ==
    /\ pc = "running"
    /\ state \notin TerminalStates
    /\ iterations + 1 > safety_cap
    /\ iterations' = iterations + 1
    /\ pc' = "returned"
    /\ result' = EngineReturn("SafetyCapExceeded", <<iterations + 1>>)
    /\ UNCHANGED <<state, memory, transitions, checkpoints, handler_calls,
                   llm_calls, executed, last_from, last_event, last_input,
                   retry_vars, store_vars>>
    /\ UNCHANGED side_vars

\* run(): the loop has ended in a terminal state
RunReturn ==
    /\ pc = "running"
    /\ state \in TerminalStates
    /\ pc' = "returned"
    /\ result' =
         IF state = "Done"
         THEN EngineReturn("Ok", IF IsSome(memory.final_answer)
                                 THEN Unwrap(memory.final_answer)
                                 ELSE <<"[No answer produced]">>)
         ELSE IF state = "Error"
         THEN EngineReturn("AgentFailed", IF IsSome(memory.error)
                                          THEN Unwrap(memory.error)
                                          ELSE <<"Unknown error">>)
         ELSE EngineReturn("Ok", IF IsSome(memory.final_answer)
                                 THEN Unwrap(memory.final_answer)
                                 ELSE <<"[Terminated in state:", state>>)
    /\ UNCHANGED <<state, memory, transitions, iterations, checkpoints,
                   handler_calls, llm_calls, executed, last_from, last_event,
                   last_input, retry_vars, store_vars>>
    /\ UNCHANGED side_vars

\* AgentBuilder::resume(session_id) followed by build(), on a new builder
\* that was given the store of the interrupted engine: the latest
\* checkpoint replaces the builder's memory, session id and initial state,
\* and a session without checkpoint is a BuildError.
Resume ==
    /\ resume_result = <<>>
    /\ LET checkpoint == load_latest(checkpoints, SessionId)
       IN  resume_result' =
             IF IsSome(checkpoint)
             THEN <<"Ok", [memory     |-> Unwrap(checkpoint).memory,
                           session_id |-> Unwrap(checkpoint).session_id,
                           state      |-> Unwrap(checkpoint).state]>>
             ELSE <<"BuildError", "No checkpoint found for session:",
                    SessionId>>
    /\ UNCHANGED <<engine_vars, retry_vars, file_store, sqlite_rows, saved>>
    /\ UNCHANGED side_vars

Next ==
    \/ StepIdle
    \/ StepPlanning
    \/ StepActing
    \/ StepParallelActing
    \/ StepObserving
    \/ StepReflecting
    \/ StepWaitingForHuman
    \/ NoHandlerForState
    \/ SafetyCapExceeded
    \/ RunReturn

Spec == Init /\ [][Next]_vars

\* runs of an engine whose session a new builder may resume at any point
ResumeNext == Next \/ Resume

SpecResume == Init /\ [][ResumeNext]_vars

\* ------------------------------------------------------------------------
\* RetryingLlmCaller::call_async
\* ------------------------------------------------------------------------

\* str::to_lowercase on the words that occur in the error texts explored
Lower(word) ==
    CASE word = "Unauthorized" -> "unauthorized"
      [] word = "Rate Limit"   -> "rate limit"
      [] word = "FORBIDDEN"    -> "forbidden"
      [] OTHER                 -> word

ToLowercase(err) == [i \in 1..Len(err) |-> Lower(err[i])]

AuthPatterns ==
    {"401", "403", "authentication", "unauthorized", "forbidden",
     "invalid api key"}

RateLimitPatterns ==
    {"429", "rate limit", "too many requests", "too_many_tokens_error",
     "token_quota_exceeded", "too_many_requests_error", "queue_exceeded",
     "limit exceeded"}

is_auth_error(err) ==
    \E p \in AuthPatterns : Contains(ToLowercase(err), p)

is_rate_limit_error(err) ==
    \E p \in RateLimitPatterns : Contains(ToLowercase(err), p)

\* error texts the inner caller can fail with
ErrorTexts ==
    {<<"connection reset">>, <<"HTTP", "429", "Rate Limit">>,
     <<"HTTP", "401", "Unauthorized">>, <<"HTTP", "500">>,
     <<"429", "FORBIDDEN">>}

InnerOk == <<"Ok", "resp">>

InnerErr(e) == <<"Err">> \o e

\* an engine that has been built and is not run, while the wrapper is
\* exercised on its own
EngineParked ==
    /\ state = "Idle"
    /\ memory = NewMemory(AgentConfig(1, 1, 2), DefaultPolicy, FALSE, None)
    /\ transitions = MergedTable("default")
    /\ iterations = 0
    /\ pc = "running"
    /\ result = Running
    /\ checkpoints = [s \in {SessionId} |-> <<>>]
    /\ handler_calls = 0
    /\ llm_calls = 0
    /\ executed = <<>>
    /\ last_from = ""
    /\ last_event = ""
    /\ last_input = None

RetryInit ==
    /\ EngineParked
    /\ StoreIdle
    /\ SideIdle
    /\ attempt = 0
    /\ inner_calls = <<>>
    /\ max_retries \in 0..MaxLlmRetries
    /\ retry_result = <<>>
    /\ waits = <<>>

\* a loop that runs one attempt too many
InRetryLoop_off_by_one == attempt <= max_retries + 1

\* for attempt in 0..=self.max_retries
InRetryLoop == attempt <= max_retries

\* the inner call succeeds: return Ok(resp)
RetryInnerOk ==
    /\ retry_result = <<>>
    /\ InRetryLoop
    /\ inner_calls' = Append(inner_calls, InnerOk)
    /\ retry_result' = InnerOk
    /\ UNCHANGED <<attempt, max_retries, waits, engine_vars, store_vars>>
    /\ UNCHANGED side_vars

\* the inner call fails with an auth error: return Err(e) at once
RetryInnerAuth ==
    /\ retry_result = <<>>
    /\ InRetryLoop
    /\ \E e \in ErrorTexts :
          /\ is_auth_error(e)
          /\ inner_calls' = Append(inner_calls, InnerErr(e))
          /\ retry_result' = InnerErr(e)
    /\ UNCHANGED <<attempt, max_retries, waits, engine_vars, store_vars>>
    /\ UNCHANGED side_vars

\* width of the scaled-down unsigned word that stands for the u64 of
\* wait_secs (the cap of 60 fits in it)
ShiftBits == 8

\* retry.rs 71
base_wait(e) == IF is_rate_limit_error(e) THEN 5 ELSE 1

\* base_wait << attempt on the unsigned word: the bits shifted out are
\* dropped; a shift by the width or more panics in a build with overflow
\* checks and is taken modulo the width in a build without
shl(x, k) ==
    IF k < ShiftBits
    THEN {[panic |-> FALSE, value |-> (x * 2^k) % 2^ShiftBits]}
    ELSE {[panic |-> TRUE, value |-> 0],
          [panic |-> FALSE,
           value |-> (x * 2^(k % ShiftBits)) % 2^ShiftBits]}

\* std::cmp::min(.., 60)
wait_secs(shifted) == IF shifted < 60 THEN shifted ELSE 60

\* the inner call fails with another error: remember it, sleep if an
\* attempt is left, and go round the loop
RetryInnerTransient ==
    /\ retry_result = <<>>
    /\ InRetryLoop
    /\ \E e \in ErrorTexts :
          /\ ~is_auth_error(e)
          /\ inner_calls' = Append(inner_calls, InnerErr(e))
          /\ IF attempt < max_retries
             THEN \E shifted \in shl(base_wait(e), attempt) :
                     IF shifted.panic
                     THEN /\ retry_result' =
                               <<"Panic", "attempt to shift left with overflow">>
                          /\ UNCHANGED <<attempt, waits>>
                     ELSE /\ waits' = Append(waits, wait_secs(shifted.value))
                          /\ attempt' = attempt + 1
                          /\ UNCHANGED retry_result
             ELSE /\ attempt' = attempt + 1
                  /\ UNCHANGED <<retry_result, waits>>
    /\ UNCHANGED <<max_retries, engine_vars, store_vars>>
    /\ UNCHANGED side_vars

\* the loop is over without a return: Err("<prefix> after N retries ...")
RetryExhausted ==
    /\ retry_result = <<>>
    /\ ~InRetryLoop
    /\ LET last_err == Tail(inner_calls[Len(inner_calls)])
           rate_limited == \E i \in 1..Len(inner_calls) :
                              is_rate_limit_error(Tail(inner_calls[i]))
       IN  retry_result' =
             <<"Err", IF rate_limited THEN "LLM RATE LIMIT EXCEEDED"
                      ELSE "LLM failed", "after retries">> \o last_err
    /\ UNCHANGED <<attempt, inner_calls, max_retries, waits, engine_vars,
                   store_vars>>
    /\ UNCHANGED side_vars

RetryNext ==
    \/ RetryInnerOk
    \/ RetryInnerAuth
    \/ RetryInnerTransient
    \/ RetryExhausted

SpecRetry == RetryInit /\ [][RetryNext]_vars

\* a wrapper built with retry_on_error(n) for an n beyond the word's width
LongRetries == ShiftBits + 1

BackoffInit ==
    /\ EngineParked
    /\ StoreIdle
    /\ SideIdle
    /\ attempt = 0
    /\ inner_calls = <<>>
    /\ max_retries \in {1, LongRetries}
    /\ retry_result = <<>>
    /\ waits = <<>>

SpecBackoff == BackoffInit /\ [][RetryNext]_vars

\* ------------------------------------------------------------------------
\* Checkpoint stores
\* ------------------------------------------------------------------------

\* number of save() calls explored
MaxSaves == 3

Sessions == {"s1", "s2"}

\* chrono::DateTime<Utc> values carried by the checkpoints saved: seconds
\* and milliseconds within one minute
Timestamps == {[secs |-> s, millis |-> m] : s \in 0..1, m \in {0, 500}}

\* DateTime's Ord
TimeLess(a, b) ==
    a.secs < b.secs \/ (a.secs = b.secs /\ a.millis < b.millis)

\* DateTime::to_rfc3339 as the byte values of the text, from the seconds'
\* last digit on (what precedes it is the same in all the texts): the
\* digit, ".mmm" unless the fraction is zero, then "+00:00"
to_rfc3339(ts) ==
    <<48 + ts.secs>>
    \o (IF ts.millis = 0 THEN <<>>
        ELSE <<46, 48 + (ts.millis \div 100), 48 + ((ts.millis \div 10) % 10),
               48 + (ts.millis % 10)>>)
    \o <<43>>

\* DateTime::parse_from_rfc3339(..).with_timezone(&Utc)
parse_from_rfc3339(text) ==
    [secs   |-> text[1] - 48,
     millis |-> IF text[2] = 46
                THEN (text[3] - 48) * 100 + (text[4] - 48) * 10 + (text[5] - 48)
                ELSE 0]

\* SQLite's comparison of two TEXT values (BINARY collation)
RECURSIVE TextLess(_, _)
TextLess(a, b) ==
    IF b = <<>> THEN FALSE
    ELSE IF a = <<>> THEN TRUE
    ELSE IF Head(a) # Head(b) THEN Head(a) < Head(b)
    ELSE TextLess(Tail(a), Tail(b))

AgentCheckpoint(checkpoint_id, session_id, st, mem, timestamp) ==
    [checkpoint_id |-> checkpoint_id, session_id |-> session_id,
     state |-> st, memory |-> mem, timestamp |-> timestamp]

\* the stored form of a checkpoint: the timestamp becomes its RFC 3339 text
Serialize(cp) == [cp EXCEPT !.timestamp = to_rfc3339(@)]

Deserialize(row) == [row EXCEPT !.timestamp = parse_from_rfc3339(@)]

\* MemoryCheckpointStore::save: entry(session).or_default().push(cp)
MemorySave(store, cp) ==
    IF cp.session_id \in DOMAIN store
    THEN [store EXCEPT ![cp.session_id] = Append(@, cp)]
    ELSE (cp.session_id :> <<cp>>) @@ store

\* FileCheckpointStore::save: read the session's file if it exists, push,
\* write the file
FileSave(files, cp) ==
    IF cp.session_id \in DOMAIN files
    THEN [files EXCEPT ![cp.session_id] = Append(@, Serialize(cp))]
    ELSE (cp.session_id :> <<Serialize(cp)>>) @@ files

\* FileCheckpointStore::load_latest: checkpoints.last() of the file
file_load_latest(files, session_id) ==
    IF session_id \notin DOMAIN files THEN None
    ELSE LET list == files[session_id]
         IN  IF list = <<>> THEN None ELSE Some(Deserialize(list[Len(list)]))

\* SqliteCheckpointStore::save: INSERT, which fails on a checkpoint_id
\* that is already a row (PRIMARY KEY)
SqliteSave(rows, cp) ==
    IF \E r \in rows : r.checkpoint_id = cp.checkpoint_id
    THEN rows
    ELSE rows \cup {Serialize(cp)}

\* SqliteCheckpointStore::load_latest: WHERE session_id = ?1 ORDER BY
\* timestamp DESC LIMIT 1. The answers the query can give: among rows
\* with equal timestamp text the engine may return any.
sqlite_load_latest(rows, session_id) ==
    LET mine == {r \in rows : r.session_id = session_id}
        top  == {r \in mine :
                    \A q \in mine : ~TextLess(r.timestamp, q.timestamp)}
    IN  IF mine = {} THEN {None} ELSE {Some(Deserialize(r)) : r \in top}

\* states a saved checkpoint can carry
CheckpointStates == {"Planning", "Done"}

\* One save() of the same checkpoint on each of the three backends. The
\* checkpoint id is fresh (a UUID in the program).
Save ==
    /\ Len(saved) < MaxSaves
    /\ \E session_id \in Sessions, timestamp \in Timestamps,
          st \in CheckpointStates :
          LET mem == [NewMemory(AgentConfig(1, 1, 2), DefaultPolicy, FALSE,
                                None)
                         EXCEPT !.step = Len(saved)]
              cp  == AgentCheckpoint(ToString(Len(saved) + 1), session_id,
                                     st, mem, timestamp)
          IN  /\ checkpoints' = MemorySave(checkpoints, cp)
              /\ file_store' = FileSave(file_store, cp)
              /\ sqlite_rows' = SqliteSave(sqlite_rows, cp)
              /\ saved' = Append(saved, cp)
    /\ UNCHANGED <<state, memory, transitions, iterations, pc, result,
                   handler_calls, llm_calls, executed, last_from, last_event,
                   last_input, retry_vars, resume_result>>
    /\ UNCHANGED side_vars

StoreInit == EngineParked /\ RetryIdle /\ StoreIdle /\ SideIdle

StoreNext == Save \/ Resume

SpecStore == StoreInit /\ [][StoreNext]_vars

\* ------------------------------------------------------------------------
\* Runs under a configured min_answer_length
\* ------------------------------------------------------------------------

\* values of config.min_answer_length explored (the default is 5)
MinAnswerLengths == {0, 1, 5}

\* an engine built with the default table and policy and a config whose
\* min_answer_length the user has set
AnswerInit ==
    /\ state = "Idle"
    /\ \E max_steps \in 1..MaxStepsBound, n \in MinAnswerLengths,
          reflect \in {0, 2} :
          memory = NewMemory([AgentConfig(max_steps, 1, reflect)
                                 EXCEPT !.min_answer_length = n],
                             DefaultPolicy, FALSE, None)
    /\ transitions = MergedTable("default")
    /\ iterations = 0
    /\ pc = "running"
    /\ result = Running
    /\ checkpoints = [s \in {SessionId} |-> <<>>]
    /\ handler_calls = 0
    /\ llm_calls = 0
    /\ executed = <<>>
    /\ last_from = ""
    /\ last_event = ""
    /\ last_input = None
    /\ RetryIdle
    /\ StoreIdle
    /\ SideIdle

\* the steps a run under the default table and policy can take
AnswerNext ==
    \/ StepIdle
    \/ StepPlanning
    \/ StepActing
    \/ StepObserving
    \/ StepReflecting
    \/ SafetyCapExceeded
    \/ RunReturn

SpecAnswers == AnswerInit /\ [][AnswerNext]_vars

\* ------------------------------------------------------------------------
\* ObservingState on its own
\* ------------------------------------------------------------------------

\* largest step value of the memories handed to Observing
MaxEntryStep == 2

EntryToolCalls == {None, Some(ToolCall("dummy", "a0", Some("id1")))}

EntryObservations ==
    {None, Some(<<"SUCCESS:", "result">>), Some(<<"ERROR:", "boom">>),
     Some(<<"REJECTED:", "nope">>)}

EntryResults ==
    LET r1 == ToolResultOf(ToolCall("dummy", "a0", Some("idA")),
                           <<"Ok", "result">>)
        r2 == ToolResultOf(ToolCall("ghost", "a0", Some("idB")),
                           execute("ghost", <<"Ok", "result">>))
    IN  {<<>>, <<r1>>, <<r1, r2>>, <<r2, r1>>}

EntryHistories ==
    {<<>>,
     <<[step |-> 0, tool |-> ToolCall("risky", "a0", None),
        observation |-> <<"SUCCESS:", "old">>, success |-> TRUE]>>}

\* memories a caller can hand to ObservingState::handle (the fields are
\* public)
ObservingEntries ==
    {[NewMemory(AgentConfig(MaxEntryStep, 1, reflect), DefaultPolicy, FALSE,
                None)
         EXCEPT !.step = st, !.current_tool_call = tc,
                !.last_observation = ob, !.parallel_results = pr,
                !.history = h] :
        reflect \in {0, 2}, st \in 0..MaxEntryStep, tc \in EntryToolCalls,
        ob \in EntryObservations, pr \in EntryResults, h \in EntryHistories}

\* an engine standing in Observing with one of these memories
ObservingInit ==
    /\ state = "Observing"
    /\ memory \in ObservingEntries
    /\ transitions = MergedTable("default")
    /\ iterations = 0
    /\ pc = "running"
    /\ result = Running
    /\ checkpoints = [s \in {SessionId} |-> <<>>]
    /\ handler_calls = 0
    /\ llm_calls = 0
    /\ executed = <<>>
    /\ last_from = ""
    /\ last_event = ""
    /\ last_input = None
    /\ RetryIdle
    /\ StoreIdle
    /\ SideIdle

ObservingNext == StepObserving

SpecObserving == ObservingInit /\ [][ObservingNext]_vars

\* ------------------------------------------------------------------------
\* Runs whose LLM reports large usages
\* ------------------------------------------------------------------------

\* token counts a response can report: none, one, and the largest u32
UsageCounts == {0, 1, U32 - 1}

\* usages built by TokenUsage::new whose own sum fits the word
LargeUsages ==
    {TokenUsageNew(c[1], c[2]) :
        c \in {d \in UsageCounts \X UsageCounts : d[1] + d[2] < U32}}

UsageResponses ==
    {ToolCallResponse(ToolCall("dummy", "a0", Some("id1")), 100, Some(u)) :
        u \in LargeUsages}
    \cup {FinalAnswerResponse(LongAnswer, Some(u)) : u \in LargeUsages}
    \cup {FinalAnswerResponse(LongAnswer, None)}

\* an engine built with the default table and policy, and no budget
UsageInit ==
    /\ state = "Idle"
    /\ \E max_steps \in 1..MaxStepsBound :
          memory = NewMemory(AgentConfig(max_steps, 1, 0), DefaultPolicy,
                             FALSE, None)
    /\ transitions = MergedTable("default")
    /\ iterations = 0
    /\ pc = "running"
    /\ result = Running
    /\ checkpoints = [s \in {SessionId} |-> <<>>]
    /\ handler_calls = 0
    /\ llm_calls = 0
    /\ executed = <<>>
    /\ last_from = ""
    /\ last_event = ""
    /\ last_input = None
    /\ RetryIdle
    /\ StoreIdle
    /\ SideIdle

\* a Planning step whose LLM streams one of the responses above
StepPlanningUsage ==
    /\ CanStep("Planning")
    /\ \E r \in UsageResponses :
          LET out == PlanningHandle(memory, Streamed(r))
          IN  Step(out, IF out.calls > 0 THEN Some(Streamed(r)) ELSE None)

UsageNext ==
    \/ StepIdle
    \/ StepPlanningUsage
    \/ StepActing
    \/ StepObserving
    \/ SafetyCapExceeded
    \/ RunReturn

SpecUsage == UsageInit /\ [][UsageNext]_vars

\* ------------------------------------------------------------------------
\* run_streaming: the outputs the handlers send and the stream's polls
\* ------------------------------------------------------------------------

\* AgentOutput, all variants in one record shape
AgentOutput(kind, name, text, success) ==
    [kind |-> kind, name |-> name, text |-> text, success |-> success]

StateStarted(name) == AgentOutput("StateStarted", name, <<>>, TRUE)

LlmToken(token) == AgentOutput("LlmToken", "", <<token>>, TRUE)

ToolCallDelta(name) == AgentOutput("ToolCallDelta", name, <<>>, TRUE)

ToolCallStarted(name, args) ==
    AgentOutput("ToolCallStarted", name, <<args>>, TRUE)

ToolCallFinished(name, r) ==
    AgentOutput("ToolCallFinished", name, Tail(r), r[1] = "Ok")

ActionOutput(text) == AgentOutput("Action", "", <<text>>, TRUE)

FinalAnswerOutput(content) == AgentOutput("FinalAnswer", "", content, TRUE)

ErrorOutput(text) == AgentOutput("Error", "", text, FALSE)

\* idle.rs 22-24
IdleOutputs == <<StateStarted("Idle")>>

\* planning.rs 125-127, 160-169 and 106-108: StateStarted, the chunks the
\* LLM streams before its response if the LLM is called, and FinalAnswer
\* when the answer is accepted
PlanningOutputs(out, chunks) ==
    <<StateStarted("Planning")>>
    \o (IF out.calls > 0 THEN chunks ELSE <<>>)
    \o (IF out.event = "LlmFinalAnswer"
        THEN <<FinalAnswerOutput(Unwrap(out.memory.final_answer))>>
        ELSE <<>>)

\* acting.rs 22-24, 40-45, 54-60 and 68-74
ActingOutputs(mem, res) ==
    <<StateStarted("Acting")>>
    \o (IF ~IsSome(mem.current_tool_call) THEN <<>>
        ELSE LET tool_call == Unwrap(mem.current_tool_call)
             IN  <<ToolCallStarted(tool_call.name, tool_call.args),
                   ToolCallFinished(tool_call.name,
                                    execute(tool_call.name, res))>>)

\* parallel_acting.rs 41-46, 53-58 and 63-68: what the worker of one call
\* sends; a worker whose callable panics sends no ToolCallFinished
WorkerOutputs(tool_call, res) ==
    <<ToolCallStarted(tool_call.name, tool_call.args)>>
    \o (IF res = Abort THEN <<>>
        ELSE <<ToolCallFinished(tool_call.name,
                                execute(tool_call.name, res))>>)

\* the orders in which the sends of two concurrent workers can reach the
\* channel: each worker's own sends stay in order
RECURSIVE Interleavings(_, _)
Interleavings(a, b) ==
    IF a = <<>> THEN {b}
    ELSE IF b = <<>> THEN {a}
    ELSE {<<Head(a)>> \o m : m \in Interleavings(Tail(a), b)}
         \cup {<<Head(b)>> \o m : m \in Interleavings(a, Tail(b))}

\* all workers of a batch
RECURSIVE AllInterleavings(_)
AllInterleavings(seqs) ==
    IF seqs = <<>> THEN {<<>>}
    ELSE UNION {Interleavings(Head(seqs), m) :
                   m \in AllInterleavings(Tail(seqs))}

\* parallel_acting.rs 25-27 and 33-75
ParallelActingOutputs(mem, res) ==
    LET pending == mem.pending_tool_calls
    IN  {<<StateStarted("ParallelActing")>> \o m :
            m \in AllInterleavings(
                    [i \in 1..Len(pending) |->
                        WorkerOutputs(pending[i], res[i])])}

\* observing.rs 22-24
ObservingOutputs == <<StateStarted("Observing")>>

\* reflecting.rs 23-26
ReflectingOutputs ==
    <<StateStarted("Reflecting"), ActionOutput("Compressing history...")>>

\* waiting_for_human.rs 24-27
WaitingForHumanOutputs ==
    <<StateStarted("WaitingForHuman"),
      ActionOutput("Waiting for human approval...")>>

\* what the LLM caller can stream before its response
ChunkChoices == {<<>>, <<LlmToken("tok")>>}

\* exchanges explored in streaming runs
StreamExchanges ==
    {Streamed(ToolCallResponse(ToolCall("dummy", "a0", Some("id1")), 100,
                               None)),
     Streamed(ParallelResponse(<<ToolCall("dummy", "a0", Some("idA")),
                                 ToolCall("ghost", "a0", Some("idB"))>>,
                               100, None)),
     Streamed(FinalAnswerResponse(ShortAnswer, None)),
     Streamed(FinalAnswerResponse(LongAnswer, None)),
     Failed("error")}

\* the builder settings explored: the table and the approval policy
StreamSettings ==
    {<<"default", DefaultPolicy>>, <<"extended", DefaultPolicy>>,
     <<"extended", AlwaysAsk>>}

\* run_streaming is called on an engine that was just built
StreamInit ==
    /\ state = "Idle"
    /\ \E max_steps \in 1..MaxStepsBound, setting \in StreamSettings :
          /\ memory = NewMemory(AgentConfig(max_steps, 1, 2), setting[2],
                                TRUE, None)
          /\ transitions = MergedTable(setting[1])
    /\ iterations = 0
    /\ pc = "running"
    /\ result = Running
    /\ checkpoints = [s \in {SessionId} |-> <<>>]
    /\ handler_calls = 0
    /\ llm_calls = 0
    /\ executed = <<>>
    /\ last_from = ""
    /\ last_event = ""
    /\ last_input = None
    /\ RetryIdle
    /\ StoreIdle
    /\ SideIdle

\* engine.rs 114-116: the stream is polled after done was set
PollDone ==
    /\ ~stream_ended
    /\ stream_done
    /\ stream_ended' = TRUE
    /\ UNCHANGED <<engine_vars, retry_vars, store_vars, channel, yielded,
                   sent, stream_done, mcp_vars, writer_vars, prompt_vars>>

\* engine.rs 119-121: a message is waiting in the channel
PollPending ==
    /\ ~stream_ended
    /\ ~stream_done
    /\ channel # <<>>
    /\ yielded' = Append(yielded, Head(channel))
    /\ channel' = Tail(channel)
    /\ UNCHANGED <<engine_vars, retry_vars, store_vars, sent, stream_done,
                   stream_ended, mcp_vars, writer_vars, prompt_vars>>

\* engine.rs 124-131: the channel is empty and the state is terminal
PollTerminal ==
    /\ ~stream_ended
    /\ ~stream_done
    /\ channel = <<>>
    /\ state \in TerminalStates
    /\ stream_done' = TRUE
    /\ stream_ended' = TRUE
    /\ UNCHANGED <<engine_vars, retry_vars, store_vars, channel, yielded,
                   sent, mcp_vars, writer_vars, prompt_vars>>

\* engine.rs 135-148 with step() of 77-104: the handler runs and sends
\* outputs; a missing transition yields Error and sets done, otherwise the
\* first waiting message is yielded
PollStep(out, outputs, input) ==
    /\ memory' = out.memory
    /\ sent' = sent \o outputs
    /\ handler_calls' = handler_calls + 1
    /\ llm_calls' = llm_calls + out.calls
    /\ executed' = executed \o out.ran
    /\ last_from' = state
    /\ last_event' = out.event
    /\ last_input' = input
    /\ IF <<state, out.event>> \in DOMAIN transitions
       THEN /\ state' = transitions[<<state, out.event>>]
            /\ IF channel \o outputs # <<>>
               THEN /\ yielded' = Append(yielded, Head(channel \o outputs))
                    /\ channel' = Tail(channel \o outputs)
                    /\ UNCHANGED <<stream_done, stream_ended>>
               ELSE /\ stream_ended' = TRUE
                    /\ UNCHANGED <<yielded, channel, stream_done>>
       ELSE /\ stream_done' = TRUE
            /\ yielded' = Append(yielded,
                                 ErrorOutput(<<"InvalidTransition", state,
                                               out.event>>))
            /\ channel' = channel \o outputs
            /\ UNCHANGED <<state, stream_ended>>
    /\ UNCHANGED <<transitions, iterations, pc, result, checkpoints,
                   retry_vars, store_vars, mcp_vars, writer_vars, prompt_vars>>

\* a streamed run is followed through at most this many handler invocations
MaxPolledSteps == 6 * MaxStepsBound

\* engine.rs 133-135: the poll reaches step() in a state with a handler
CanPollStep(name) ==
    /\ ~stream_ended
    /\ ~stream_done
    /\ channel = <<>>
    /\ handler_calls < MaxPolledSteps
    /\ state = name
    /\ state \notin TerminalStates
    /\ state \in Handlers

PollIdle == CanPollStep("Idle") /\ PollStep(IdleHandle(memory), IdleOutputs, None)

PollPlanning ==
    /\ CanPollStep("Planning")
    /\ \E llm \in StreamExchanges, chunks \in ChunkChoices :
          LET out == PlanningHandle(memory, llm)
          IN  PollStep(out, PlanningOutputs(out, chunks),
                       IF out.calls > 0 THEN Some(llm) ELSE None)

PollActing ==
    /\ CanPollStep("Acting")
    /\ \E res \in ToolOutcomes :
          LET out == ActingHandle(memory, res)
          IN  PollStep(out, ActingOutputs(memory, res),
                       IF out.ran # <<>>
                       THEN Some([kind |-> "tool", res |-> res]) ELSE None)

PollParallelActing ==
    /\ CanPollStep("ParallelActing")
    /\ \E res \in [1..Len(memory.pending_tool_calls) -> WorkerOutcomes],
          order \in CompletionOrders(Len(memory.pending_tool_calls)) :
          LET done == [k \in 1..Len(order) |-> <<order[k], res[order[k]]>>]
          IN  \E outputs \in ParallelActingOutputs(memory, res) :
                 PollStep(ParallelActingHandle(memory, done), outputs,
                          Some([kind |-> "workers", res |-> done]))

PollObserving ==
    CanPollStep("Observing")
    /\ PollStep(ObservingHandle(memory), ObservingOutputs, None)

PollReflecting ==
    CanPollStep("Reflecting")
    /\ PollStep(ReflectingHandle(memory), ReflectingOutputs, None)

PollWaitingForHuman ==
    /\ CanPollStep("WaitingForHuman")
    /\ \E decision \in Decisions :
          LET out == WaitingForHumanHandle(memory, decision)
          IN  PollStep(out, WaitingForHumanOutputs,
                       IF out.event # "FatalError"
                       THEN Some(decision) ELSE None)

StreamNext ==
    \/ PollDone
    \/ PollPending
    \/ PollTerminal
    \/ PollIdle
    \/ PollPlanning
    \/ PollActing
    \/ PollParallelActing
    \/ PollObserving
    \/ PollReflecting
    \/ PollWaitingForHuman

SpecStream == StreamInit /\ [][StreamNext]_vars

\* run_streaming on an engine whose table has the user-added cycle
StreamCycleInit ==
    /\ state = "Idle"
    /\ \E max_steps \in 1..MaxStepsBound, policy \in {DefaultPolicy, AlwaysAsk} :
          memory = NewMemory(AgentConfig(max_steps, 1, 2), policy, TRUE, None)
    /\ transitions = MergedTable("cyclic")
    /\ iterations = 0
    /\ pc = "running"
    /\ result = Running
    /\ checkpoints = [s \in {SessionId} |-> <<>>]
    /\ handler_calls = 0
    /\ llm_calls = 0
    /\ executed = <<>>
    /\ last_from = ""
    /\ last_event = ""
    /\ last_input = None
    /\ RetryIdle
    /\ StoreIdle
    /\ SideIdle

\* engine.rs 135-138 with step() of 82-83: no handler is registered under
\* the state's name; the poll yields Error and sets done
PollNoHandler ==
    /\ ~stream_ended
    /\ ~stream_done
    /\ channel = <<>>
    /\ state \notin TerminalStates
    /\ state \notin Handlers
    /\ stream_done' = TRUE
    /\ yielded' = Append(yielded, ErrorOutput(<<"NoHandlerForState", state>>))
    /\ UNCHANGED <<engine_vars, retry_vars, store_vars, channel, sent,
                   stream_ended, mcp_vars, writer_vars, prompt_vars>>

StreamCycleNext == StreamNext \/ PollNoHandler

SpecStreamCycle == StreamCycleInit /\ [][StreamCycleNext]_vars

\* ------------------------------------------------------------------------
\* McpClient: concurrent requests over one connection
\* ------------------------------------------------------------------------

\* number of requests the tasks send over one connection
MaxRequests == 3

\* tasks that call send_request_internal on the shared client
Callers == {"c1", "c2"}

\* next_id.fetch_add(1, SeqCst): the value the counter takes
fetch_add(n) == n + 1

\* a reader that hands a response to whichever waiter is registered
waiter_key_any(pending, id_val) == DOMAIN pending

\* pending_guard.remove(&id_val): the key whose sender is taken
waiter_key(pending, id_val) ==
    IF id_val \in DOMAIN pending THEN {id_val} ELSE {}

\* the oneshot channel of one request: who awaits it and for which id
Waiter(c, id) == [caller |-> c, id |-> id]

\* a task outside send_request_internal
NoRequest == [pc |-> "idle", id |-> 0, got |-> <<>>]

\* McpClient::new: next_id = 1, pending empty, nothing written
McpInit ==
    /\ EngineParked
    /\ RetryIdle
    /\ StoreIdle
    /\ StreamIdle
    /\ WritersIdle
    /\ PromptIdle
    /\ next_id = 1
    /\ pending_waiters = << >>
    /\ written = <<>>
    /\ callers = [c \in Callers |-> [request |-> NoRequest, log |-> <<>>]]
    /\ reader_running = TRUE

\* client.rs 69-75
AllocateId ==
    /\ \E c \in Callers :
          /\ callers[c].request.pc = "idle"
          /\ next_id <= MaxRequests
          /\ next_id' = fetch_add(next_id)
          /\ callers' = [callers EXCEPT ![c].request =
                            [pc |-> "allocated", id |-> next_id, got |-> <<>>]]
          /\ UNCHANGED <<pending_waiters, written>>
    /\ UNCHANGED <<engine_vars, retry_vars, store_vars, stream_vars,
                   writer_vars, prompt_vars,
                   reader_running>>

\* client.rs 77-81
RegisterWaiter ==
    /\ \E c \in Callers :
          /\ callers[c].request.pc = "allocated"
          /\ pending_waiters' =
                (callers[c].request.id :> Waiter(c, callers[c].request.id))
                @@ pending_waiters
          /\ callers' = [callers EXCEPT ![c].request.pc = "registered"]
          /\ UNCHANGED <<next_id, written>>
    /\ UNCHANGED <<engine_vars, retry_vars, store_vars, stream_vars,
                   writer_vars, prompt_vars,
                   reader_running>>

\* client.rs 83-86, the write succeeds
WriteRequest ==
    /\ \E c \in Callers :
          /\ callers[c].request.pc = "registered"
          /\ written' = Append(written, callers[c].request.id)
          /\ callers' = [callers EXCEPT ![c].request.pc = "waiting"]
          /\ UNCHANGED <<next_id, pending_waiters>>
    /\ UNCHANGED <<engine_vars, retry_vars, store_vars, stream_vars,
                   writer_vars, prompt_vars,
                   reader_running>>

\* client.rs 85: the write fails and `?` returns the error; the entry of
\* the pending map stays
WriteFails ==
    /\ \E c \in Callers :
          /\ callers[c].request.pc = "registered"
          /\ callers' = [callers EXCEPT
                            ![c].request = NoRequest,
                            ![c].log = Append(@, [id |-> callers[c].request.id,
                                              response |-> None])]
          /\ UNCHANGED <<next_id, pending_waiters, written>>
    /\ UNCHANGED <<engine_vars, retry_vars, store_vars, stream_vars,
                   writer_vars, prompt_vars,
                   reader_running>>

\* client.rs 46-56: the reader loop reads a response carrying id_val (the
\* server decides which) and sends it to the waiter it removes
ReadResponse ==
    /\ reader_running
    /\ \E id_val \in 1..MaxRequests :
          /\ \E key \in waiter_key(pending_waiters, id_val) :
                LET tx == pending_waiters[key]
                    rx == callers[tx.caller].request
                IN  /\ pending_waiters' =
                          [k \in DOMAIN pending_waiters \ {key} |->
                              pending_waiters[k]]
                    /\ callers' =
                          IF rx.id = tx.id /\ rx.pc \in {"registered", "waiting"}
                          THEN [callers EXCEPT ![tx.caller].request.got =
                                                  Append(@, id_val)]
                          ELSE callers
          /\ UNCHANGED <<next_id, written>>
    /\ UNCHANGED <<engine_vars, retry_vars, store_vars, stream_vars,
                   writer_vars, prompt_vars,
                   reader_running>>

\* client.rs 88: rx.await returns the response
ReturnResponse ==
    /\ \E c \in Callers :
          /\ callers[c].request.pc = "waiting"
          /\ callers[c].request.got # <<>>
          /\ callers' = [callers EXCEPT
                            ![c].request = NoRequest,
                            ![c].log = Append(@, [id |-> callers[c].request.id,
                                              response |->
                                                 Some(callers[c].request.got[1])])]
          /\ UNCHANGED <<next_id, pending_waiters, written>>
    /\ UNCHANGED <<engine_vars, retry_vars, store_vars, stream_vars,
                   writer_vars, prompt_vars,
                   reader_running>>

McpNext ==
    \/ AllocateId
    \/ RegisterWaiter
    \/ WriteRequest
    \/ WriteFails
    \/ ReadResponse
    \/ ReturnResponse

SpecMcp == McpInit /\ [][McpNext]_vars

\* client.rs 46 with transport.rs 54-57 and 69-74: read_message returns an
\* error (the subprocess closed its output, or a JSON line does not fit
\* the message type) and `?` ends run_reader_loop; the pending map, which
\* the client owns too, keeps its senders
ReaderStops ==
    /\ reader_running
    /\ reader_running' = FALSE
    /\ UNCHANGED <<next_id, pending_waiters, written, callers>>
    /\ UNCHANGED <<engine_vars, retry_vars, store_vars, stream_vars,
                   writer_vars, prompt_vars>>

McpFaultNext == McpNext \/ ReaderStops

\* the runtime keeps polling every task that can make progress: a caller
\* inside send_request_internal, and the reader while the server answers
SpecMcpFaults ==
    /\ McpInit
    /\ [][McpFaultNext]_vars
    /\ WF_vars(RegisterWaiter)
    /\ WF_vars(WriteRequest \/ WriteFails)
    /\ WF_vars(ReadResponse)
    /\ WF_vars(ReturnResponse)

\* ------------------------------------------------------------------------
\* Checkpoint stores shared by concurrent tasks
\* ------------------------------------------------------------------------

\* tasks that call save() on the same stores
Writers == {"w1", "w2", "w3"}

\* the checkpoint a task saves: a fresh id, the shared session
CheckpointOf(w) ==
    AgentCheckpoint(w, SessionId, "Planning",
                    NewMemory(AgentConfig(1, 1, 2), DefaultPolicy, FALSE,
                              None),
                    [secs |-> 0, millis |-> 0])

\* content of a session file: the JSON text of a list of checkpoints, or
\* the empty text the file holds between the truncation and the write of
\* std::fs::write
JsonText(list) == [kind |-> "json", list |-> list]

EmptyText == [kind |-> "empty", list |-> <<>>]

\* path.exists(), read_to_string and serde_json::from_str of one session
\* file: <<"Ok", list>>, or <<"Err">> when the text does not parse
ReadSessionFile(files, session_id) ==
    IF session_id \notin DOMAIN files THEN <<"Ok", <<>>>>
    ELSE IF files[session_id].kind = "empty" THEN <<"Err">>
    ELSE <<"Ok", files[session_id].list>>

\* MemoryCheckpointStore::load_latest
memory_load_latest(store, session_id) ==
    IF session_id \in DOMAIN store /\ store[session_id] # <<>>
    THEN Some(store[session_id][Len(store[session_id])])
    ELSE None

\* MemoryCheckpointStore::load_by_id: the checkpoints found under the id
memory_load_by_id(store, checkpoint_id) ==
    UNION {{store[s][k] : k \in
               {i \in 1..Len(store[s]) :
                   store[s][i].checkpoint_id = checkpoint_id}} :
           s \in DOMAIN store}

\* FileCheckpointStore::load_latest: <<"Ok", option>> or <<"Err">>
shared_file_load_latest(files, session_id) ==
    IF session_id \notin DOMAIN files THEN <<"Ok", None>>
    ELSE LET data == ReadSessionFile(files, session_id)
         IN  IF data[1] = "Err" THEN <<"Err">>
             ELSE IF data[2] = <<>> THEN <<"Ok", None>>
             ELSE <<"Ok", Some(Deserialize(data[2][Len(data[2])]))>>

\* FileCheckpointStore::load_by_id over the one session file of the
\* directory: the checkpoints found under the id, or <<"Err">>
shared_file_load_by_id(files, checkpoint_id) ==
    LET data == ReadSessionFile(files, SessionId)
    IN  IF data[1] = "Err" THEN <<"Err">>
        ELSE <<"Ok", {Deserialize(data[2][k]) : k \in
                        {i \in 1..Len(data[2]) :
                            data[2][i].checkpoint_id = checkpoint_id}}>>

\* a task about to call save() on the memory store, then on the file store
WriterStart == [pc |-> "start", local |-> <<>>]

WritersInit ==
    /\ EngineParked
    /\ RetryIdle
    /\ StoreIdle
    /\ StreamIdle
    /\ McpIdle
    /\ PromptIdle
    /\ session_file = << >>
    /\ session_list = << >>
    /\ writers = [w \in Writers |-> WriterStart]
    /\ acked = [memory |-> <<>>, file |-> <<>>]

\* MemoryCheckpointStore::save, under the store's mutex
MemoryStoreSave ==
    /\ \E w \in Writers :
          /\ writers[w].pc = "start"
          /\ session_list' = MemorySave(session_list, CheckpointOf(w))
          /\ acked' = [acked EXCEPT !.memory = Append(@, CheckpointOf(w))]
          /\ writers' = [writers EXCEPT ![w].pc = "file_start"]
    /\ UNCHANGED <<engine_vars, retry_vars, store_vars, stream_vars, mcp_vars,
                   prompt_vars,
                   session_file>>

\* FileCheckpointStore::save, checkpoint.rs 96-102: read the list that is
\* in the file now
FileSaveRead ==
    /\ \E w \in Writers :
          /\ writers[w].pc = "file_start"
          /\ LET data == ReadSessionFile(session_file, SessionId)
             IN  writers' =
                   IF data[1] = "Err"
                   THEN [writers EXCEPT ![w].pc = "file_failed"]
                   ELSE [writers EXCEPT ![w] =
                            [pc |-> "file_read", local |-> data[2]]]
    /\ UNCHANGED <<engine_vars, retry_vars, store_vars, stream_vars, mcp_vars,
                   prompt_vars,
                   session_file, session_list, acked>>

\* checkpoint.rs 105: std::fs::write creates the file or truncates it
FileSaveTruncate ==
    /\ \E w \in Writers :
          /\ writers[w].pc = "file_read"
          /\ session_file' = (SessionId :> EmptyText)
          /\ writers' = [writers EXCEPT ![w].pc = "file_truncated"]
    /\ UNCHANGED <<engine_vars, retry_vars, store_vars, stream_vars, mcp_vars,
                   prompt_vars,
                   session_list, acked>>

\* checkpoint.rs 103-106: the list read, with the checkpoint pushed, is
\* written and save() returns Ok
FileSaveWrite ==
    /\ \E w \in Writers :
          /\ writers[w].pc = "file_truncated"
          /\ session_file' =
                (SessionId :>
                    JsonText(Append(writers[w].local,
                                    Serialize(CheckpointOf(w)))))
          /\ acked' = [acked EXCEPT !.file = Append(@, CheckpointOf(w))]
          /\ writers' = [writers EXCEPT ![w].pc = "done"]
    /\ UNCHANGED <<engine_vars, retry_vars, store_vars, stream_vars, mcp_vars,
                   prompt_vars,
                   session_list>>

WritersNext ==
    \/ MemoryStoreSave
    \/ FileSaveRead
    \/ FileSaveTruncate
    \/ FileSaveWrite

SpecWriters == WritersInit /\ [][WritersNext]_vars

\* ------------------------------------------------------------------------
\* Runs of an engine built with parallel_tools(false)
\* ------------------------------------------------------------------------

\* AgentBuilder::parallel_tools(false), then build()
SequentialInit ==
    /\ state = "Idle"
    /\ \E max_steps \in 1..MaxStepsBound, policy \in PolicyChoices,
          has_callback \in BOOLEAN :
          memory = NewMemory([AgentConfig(max_steps, 1, 2)
                                 EXCEPT !.parallel_tools = FALSE],
                             policy, has_callback, None)
    /\ \E name \in TableChoices : transitions = MergedTable(name)
    /\ iterations = 0
    /\ pc = "running"
    /\ result = Running
    /\ checkpoints = [s \in {SessionId} |-> <<>>]
    /\ handler_calls = 0
    /\ llm_calls = 0
    /\ executed = <<>>
    /\ last_from = ""
    /\ last_event = ""
    /\ last_input = None
    /\ RetryIdle
    /\ StoreIdle
    /\ SideIdle

SpecSequential == SequentialInit /\ [][Next]_vars

\* ------------------------------------------------------------------------
\* Runs against the safety cap under longer step budgets
\* ------------------------------------------------------------------------

\* largest max_steps of these runs
MaxCapSteps == 3

\* values of config.reflect_every_n_steps explored (0 turns reflection off)
ReflectIntervals == {0, 1, 2}

CapResponses ==
    {ToolCallResponse(ToolCall("dummy", "a0", Some("id1")), c, None) :
        c \in ConfidenceChoices}
    \cup {FinalAnswerResponse(ShortAnswer, None),
          FinalAnswerResponse(LongAnswer, None)}

\* an engine built with the default table and policy
CapInit ==
    /\ state = "Idle"
    /\ \E max_steps \in 1..MaxCapSteps, reflect \in ReflectIntervals :
          memory = NewMemory(AgentConfig(max_steps, 1, reflect),
                             DefaultPolicy, FALSE, None)
    /\ transitions = MergedTable("default")
    /\ iterations = 0
    /\ pc = "running"
    /\ result = Running
    /\ checkpoints = [s \in {SessionId} |-> <<>>]
    /\ handler_calls = 0
    /\ llm_calls = 0
    /\ executed = <<>>
    /\ last_from = ""
    /\ last_event = ""
    /\ last_input = None
    /\ RetryIdle
    /\ StoreIdle
    /\ SideIdle

\* a Planning step whose LLM streams one of the responses above
StepPlanningCap ==
    /\ CanStep("Planning")
    /\ \E r \in CapResponses :
          LET out == PlanningHandle(memory, Streamed(r))
          IN  Step(out, IF out.calls > 0 THEN Some(Streamed(r)) ELSE None)

CapNext ==
    \/ StepIdle
    \/ StepPlanningCap
    \/ StepActing
    \/ StepObserving
    \/ StepReflecting
    \/ SafetyCapExceeded
    \/ RunReturn

SpecCap == CapInit /\ [][CapNext]_vars

\* ------------------------------------------------------------------------
\* Runs under retry budgets the builder can set
\* ------------------------------------------------------------------------

\* values of config.max_retries explored (AgentBuilder::config)
RetryBudgets == {0, 1}

\* an engine with the approval edges wired, a callback and no token budget
ToolCallInit ==
    /\ state = "Idle"
    /\ \E max_steps \in 1..MaxStepsBound, retries \in RetryBudgets,
          policy \in PolicyChoices :
          memory = NewMemory(AgentConfig(max_steps, retries, 2), policy,
                             TRUE, None)
    /\ transitions = MergedTable("extended")
    /\ iterations = 0
    /\ pc = "running"
    /\ result = Running
    /\ checkpoints = [s \in {SessionId} |-> <<>>]
    /\ handler_calls = 0
    /\ llm_calls = 0
    /\ executed = <<>>
    /\ last_from = ""
    /\ last_event = ""
    /\ last_input = None
    /\ RetryIdle
    /\ StoreIdle
    /\ SideIdle

ToolCallNext ==
    \/ StepIdle
    \/ StepPlanning
    \/ StepActing
    \/ StepParallelActing
    \/ StepObserving
    \/ StepReflecting
    \/ StepWaitingForHuman
    \/ SafetyCapExceeded
    \/ RunReturn

SpecToolCall == ToolCallInit /\ [][ToolCallNext]_vars

\* ------------------------------------------------------------------------
\* AgentMemory::build_messages
\* ------------------------------------------------------------------------

\* serde_json::to_string(&entry.tool.args): the JSON text of the map
ArgsToJson(args) == <<"{", args, "}">>

\* the shape of one element of the messages array; a key a message lacks
\* is None
Message(role, content, tool_calls, tool_call_id, name) ==
    [role |-> role, content |-> content, tool_calls |-> tool_calls,
     tool_call_id |-> tool_call_id, name |-> name]

\* memory.rs 169: entry.tool.id, or "legacy" for a call without id
tool_id(entry) ==
    IF IsSome(entry.tool.id) THEN Unwrap(entry.tool.id) ELSE "legacy"

\* a grouping that compares the tool names instead of the steps
same_step_by_name(last_step, entry) ==
    last_step[1].tool.name = entry.tool.name

\* memory.rs 156: last_step[0].step == entry.step
same_step(last_step, entry) == last_step[1].step = entry.step

\* memory.rs 153-162: consecutive entries of one step form one group
RECURSIVE GroupBySteps(_, _)
GroupBySteps(steps, entries) ==
    IF entries = <<>> THEN steps
    ELSE LET entry == Head(entries)
         IN  IF steps # <<>> /\ same_step(steps[Len(steps)], entry)
             THEN GroupBySteps([steps EXCEPT ![Len(steps)] = Append(@, entry)],
                               Tail(entries))
             ELSE GroupBySteps(Append(steps, <<entry>>), Tail(entries))

\* memory.rs 165-196: the assistant message with all calls of the group,
\* then one tool message per entry
StepMessages(step_entries) ==
    <<Message("assistant", None,
              [i \in 1..Len(step_entries) |->
                  [id |-> tool_id(step_entries[i]),
                   name |-> step_entries[i].tool.name,
                   arguments |-> ArgsToJson(step_entries[i].tool.args)]],
              None, None)>>
    \o [i \in 1..Len(step_entries) |->
          Message("tool", Some(step_entries[i].observation), <<>>,
                  Some(tool_id(step_entries[i])),
                  Some(step_entries[i].tool.name))]

RECURSIVE ExtendAll(_)
ExtendAll(steps) ==
    IF steps = <<>> THEN <<>>
    ELSE StepMessages(Head(steps)) \o ExtendAll(Tail(steps))

build_messages(mem) ==
    (IF mem.system_prompt # ""
     THEN <<Message("system", Some(mem.system_prompt), <<>>, None, None)>>
     ELSE <<>>)
    \o <<Message("user", Some(mem.task), <<>>, None, None)>>
    \o ExtendAll(GroupBySteps(<<>>, mem.history))

\* longest history handed to build_messages
MaxHistoryLen == 3

\* one history entry as Observing or Reflecting writes it
PromptEntries ==
    {[step |-> st, tool |-> ToolCall(n, "a0", id),
      observation |-> <<"SUCCESS:", "result">>, success |-> TRUE] :
        st \in 1..MaxStepsBound, n \in {"dummy", "risky"},
        id \in {None, Some("idA"), Some("idB")}}

\* histories whose step values do not decrease
PromptHistories ==
    UNION {{h \in [1..n -> PromptEntries] :
               \A i \in 1..(n - 1) : h[i].step <= h[i + 1].step} :
           n \in 0..MaxHistoryLen}

\* an engine that is about to call the LLM with such a memory
PromptInit ==
    /\ state = "Planning"
    /\ \E prompt \in {"", "be brief"}, h \in PromptHistories :
          memory = [NewMemory(AgentConfig(MaxStepsBound + 1, 1, 0),
                              DefaultPolicy, FALSE, None)
                       EXCEPT !.system_prompt = prompt, !.history = h,
                              !.step = IF h = <<>> THEN 0
                                       ELSE h[Len(h)].step]
    /\ transitions = MergedTable("default")
    /\ iterations = 0
    /\ pc = "running"
    /\ result = Running
    /\ checkpoints = [s \in {SessionId} |-> <<>>]
    /\ handler_calls = 0
    /\ llm_calls = 0
    /\ executed = <<>>
    /\ last_from = ""
    /\ last_event = ""
    /\ last_input = None
    /\ RetryIdle
    /\ StoreIdle
    /\ SideIdle

\* openai.rs 77: the LLM caller asks the memory for the messages
BuildMessages ==
    /\ messages = <<>>
    /\ messages' = build_messages(memory)
    /\ UNCHANGED <<engine_vars, retry_vars, store_vars, stream_vars,
                   mcp_vars, writer_vars>>

PromptNext == BuildMessages

SpecPrompt == PromptInit /\ [][PromptNext]_vars

\* ------------------------------------------------------------------------
\* Properties
\* ------------------------------------------------------------------------

DefaultTable == transitions = build_transition_table

TraceEvents == {memory.trace[i].event : i \in 1..Len(memory.trace)}

\* the handler invoked in this step is the one of state name
Invokes(name) ==
    /\ pc = "running"
    /\ state = name
    /\ handler_calls' = handler_calls + 1

\* C1: with the built-in handlers and the default table, the (state, event)
\* pair of every handler invocation is a key of the table, so step() never
\* fails with InvalidTransition.
C1_EventsInTable ==
    (DefaultTable /\ last_from # "")
        => /\ <<last_from, last_event>> \in DOMAIN transitions
           /\ result.kind # "InvalidTransition"

\* the LLM answered every Planning call so far with a full-confidence call
\* to a registered, non-blacklisted tool that needs no approval
OnlyToolCalls ==
    /\ \A i \in 1..Len(memory.trace) :
          memory.trace[i].state = "Planning"
              => memory.trace[i].event \in
                    {"STEP_START", "LLM_TOOL_CALL", "MAX_STEPS"}
    /\ Range(executed) \subseteq (RegisteredTools \ BlacklistedTools)
    /\ ~IsSome(memory.budget)

\* C2: when the LLM answers every Planning call with such a tool call,
\* run() fails with AgentFailed("Max steps ...") in state Error and with
\* no other error kind.
C2_MaxStepsFailure ==
    (DefaultTable /\ OnlyToolCalls /\ pc = "returned")
        => /\ result.kind = "AgentFailed"
           /\ Contains(result.value, "Max steps")
           /\ state = "Error"

\* C3: run() invokes at most 3 x max_steps handlers whatever the table;
\* when iteration 3 x max_steps + 1 begins in a non-terminal state it
\* returns SafetyCapExceeded without invoking a handler, also when the
\* MaxSteps guard of Planning has already fired.
C3_SafetyCap ==
    /\ handler_calls <= 3 * memory.config.max_steps
    /\ handler_calls <= iterations
    /\ iterations <= 3 * memory.config.max_steps + 1
    /\ iterations = 3 * memory.config.max_steps + 1
          => /\ pc = "returned"
             /\ result = EngineReturn("SafetyCapExceeded", <<iterations>>)
    /\ (pc = "running" /\ iterations = 3 * memory.config.max_steps)
          => (state \in TerminalStates \/ ENABLED SafetyCapExceeded)

\* a run under a user-added cycle that the MaxSteps guard did not stop and
\* the cap did
C3_Witness ==
    /\ result.kind = "SafetyCapExceeded"
    /\ "MAX_STEPS" \in TraceEvents
    /\ handler_calls = 3 * memory.config.max_steps

\* Planning is invoked and the LLM answers with a single call to a
\* blacklisted tool
BlacklistedProposal ==
    /\ Invokes("Planning")
    /\ IsSome(last_input')
    /\ Unwrap(last_input').kind \in {"streamed", "fallback"}
    /\ Unwrap(last_input').resp.kind = "ToolCall"
    /\ Unwrap(last_input').resp.tool.name \in memory.blacklisted_tools

\* C4: a single ToolCall naming a blacklisted tool makes Planning emit
\* ToolBlacklisted and the engine stay in Planning: current_tool_call is
\* not set, nothing is executed, history is unchanged and the trace gets a
\* TOOL_BLACKLISTED record.
C4_BlacklistLoopsBack ==
    [][BlacklistedProposal
         => /\ last_event' = "ToolBlacklisted"
            /\ state' = "Planning"
            /\ memory'.current_tool_call = None
            /\ executed' = executed
            /\ memory'.history = memory.history
            /\ Len(memory'.trace) > Len(memory.trace)
            /\ memory'.trace[Len(memory'.trace)].event = "TOOL_BLACKLISTED"
            /\ SubSeq(memory'.trace, 1, Len(memory.trace)) = memory.trace]_vars

C4_Witness ==
    /\ last_from = "Planning"
    /\ last_event = "ToolBlacklisted"
    /\ state = "Planning"
    /\ IsSome(last_input)
    /\ Unwrap(last_input).resp.tool.name = "forbidden"
    /\ memory.history # <<>>

\* C5: a ParallelToolCalls response takes the engine from Planning to
\* ParallelActing (and on to Observing and Planning).
C5_ParallelFlow ==
    (DefaultTable /\ last_from = "Planning"
        /\ last_event = "LlmParallelToolCalls")
        => /\ state = "ParallelActing"
           /\ result.kind # "InvalidTransition"

\* C6: with an approval callback registered, a call that needs approval is
\* handed to WaitingForHuman, so that a Rejected decision is recorded by
\* Observing and the run goes on; the run does not fail on the way.
C6_RejectionFlow ==
    (DefaultTable /\ memory.approval_callback
        /\ last_from = "Planning" /\ last_event = "HumanApprovalRequired")
        => /\ state = "WaitingForHuman"
           /\ result.kind # "InvalidTransition"

\* C7: when approval is required and no callback is registered, the run
\* ends in state Error and run() returns AgentFailed with memory.error.
C7_NoCallbackFails ==
    (~memory.approval_callback /\ "APPROVAL_REQUIRED" \in TraceEvents
        /\ pc = "returned")
        => /\ state = "Error"
           /\ result.kind = "AgentFailed"
           /\ IsSome(memory.error)
           /\ result.value = Unwrap(memory.error)

\* Planning is invoked with a budget that the usage so far exceeds, below
\* max_steps
OverBudgetEntry ==
    /\ Invokes("Planning")
    /\ memory.step < memory.config.max_steps
    /\ IsSome(memory.budget)
    /\ \/ /\ IsSome(Unwrap(memory.budget).max_total_tokens)
          /\ Unwrap(Unwrap(memory.budget).max_total_tokens)
                < memory.total_usage.total_tokens
       \/ /\ IsSome(Unwrap(memory.budget).max_input_tokens)
          /\ Unwrap(Unwrap(memory.budget).max_input_tokens)
                < memory.total_usage.input_tokens
       \/ /\ IsSome(Unwrap(memory.budget).max_output_tokens)
          /\ Unwrap(Unwrap(memory.budget).max_output_tokens)
                < memory.total_usage.output_tokens

\* Planning is invoked within budget and the LLM's response carries usage
WithinBudgetCall ==
    /\ Invokes("Planning")
    /\ memory.step < memory.config.max_steps
    /\ IsSome(memory.budget)
    /\ memory.total_usage.total_tokens
          <= Unwrap(Unwrap(memory.budget).max_total_tokens)
    /\ IsSome(last_input')
    /\ Unwrap(last_input').kind # "failed"
    /\ IsSome(Unwrap(last_input').resp.usage)

\* C8: Planning entered over budget (below max_steps) makes no LLM call,
\* keeps step, sets error "Token budget exceeded", emits FatalError and
\* the engine moves to Error; a response that pushes the usage over the
\* budget is still dispatched in the step that received it.
C8_BudgetGuard ==
    [][/\ OverBudgetEntry
          => /\ llm_calls' = llm_calls
             /\ memory'.step = memory.step
             /\ memory'.error = Some(<<"Token", "budget exceeded">>)
             /\ last_event' = "FatalError"
             /\ state' = "Error"
       /\ WithinBudgetCall
          => /\ memory'.step = memory.step + 1
             /\ last_event' # "FatalError"
             /\ memory'.error = memory.error
             /\ memory'.total_usage.total_tokens
                  = memory.total_usage.total_tokens
                    + Unwrap(Unwrap(last_input').resp.usage).total_tokens]_vars

\* the budget stopped a run after a tool had been run on the response that
\* exceeded it
C8_Witness ==
    /\ state = "Error"
    /\ memory.error = Some(<<"Token", "budget exceeded">>)
    /\ memory.step < memory.config.max_steps
    /\ executed # <<>>
    /\ memory.total_usage.total_tokens = 6

\* the error texts of ErrorTexts that the documentation counts as auth
\* errors (401, 403, unauthorized, forbidden, ... in any letter case)
AuthTexts == {<<"HTTP", "401", "Unauthorized">>, <<"429", "FORBIDDEN">>}

IsAuthFailure(call) == call[1] = "Err" /\ Tail(call) \in AuthTexts

IsTransientFailure(call) == call[1] = "Err" /\ Tail(call) \notin AuthTexts

\* C9: one call through the retry wrapper invokes the inner caller at most
\* max_retries + 1 times, exactly once when its first error is an auth
\* error, never again after a success or an auth error, and returns the
\* first success, else an error.
C9_RetryBound ==
    /\ Len(inner_calls) <= max_retries + 1
    /\ \A i \in 1..(Len(inner_calls) - 1) : IsTransientFailure(inner_calls[i])
    /\ (inner_calls # <<>> /\ IsAuthFailure(inner_calls[1]))
          => (Len(inner_calls) = 1 /\ retry_result = inner_calls[1])
    /\ (inner_calls # <<>> /\ ~IsTransientFailure(inner_calls[Len(inner_calls)]))
          => retry_result = inner_calls[Len(inner_calls)]
    /\ retry_result # <<>>
          => IF \E i \in 1..Len(inner_calls) : inner_calls[i] = InnerOk
             THEN retry_result = InnerOk
             ELSE retry_result[1] = "Err"
    /\ (retry_result = <<>> /\ Len(inner_calls) = max_retries + 1)
          => ENABLED RetryExhausted

\* every allowed attempt was made and failed with a transient error
C9_Witness ==
    /\ max_retries >= 2
    /\ Len(inner_calls) = max_retries + 1
    /\ \A i \in 1..Len(inner_calls) : IsTransientFailure(inner_calls[i])
    /\ retry_result # <<>>
    /\ retry_result[1] = "Err"

\* C10: with a checkpoint store configured, every successful step() saves
\* one checkpoint under the session id, so the latest checkpoint holds the
\* engine's current state and memory.
C10_CheckpointEachStep ==
    (handler_calls > 0
        /\ result.kind \notin {"InvalidTransition", "NoHandlerForState"})
        => LET cp == load_latest(checkpoints, SessionId)
           IN  /\ IsSome(cp)
               /\ Unwrap(cp).state = state
               /\ Unwrap(cp).memory = memory
               /\ Len(checkpoints[SessionId]) = handler_calls

\* a new builder resumes the session of an engine that has stepped
ResumesAfterStep ==
    /\ handler_calls > 0
    /\ result.kind \notin {"InvalidTransition", "NoHandlerForState"}
    /\ resume_result = <<>>
    /\ resume_result' # <<>>

\* C11: resuming a session that an engine with a checkpoint store has
\* stepped succeeds and restores the memory, the session id and the state
\* of that engine exactly, so that the resumed engine starts where the
\* interrupted one stood and continues as it would have.
C11_ResumeRestores ==
    [][ResumesAfterStep
         => /\ resume_result'[1] = "Ok"
            /\ resume_result'[2].memory = memory
            /\ resume_result'[2].session_id = SessionId
            /\ resume_result'[2].state = state]_vars

\* the checkpoints saved for a session that no other one of the session
\* is later than
HighestOf(session_id) ==
    LET mine == {i \in 1..Len(saved) : saved[i].session_id = session_id}
    IN  IF mine = {} THEN {None}
        ELSE {Some(saved[i]) : i \in
                {k \in mine : \A j \in mine :
                    ~TimeLess(saved[k].timestamp, saved[j].timestamp)}}

\* C12: after any sequence of saves, each of the three backends answers
\* load_latest(session) with the session's checkpoint of highest timestamp,
\* or with none when the session has no checkpoint.
C12_LatestIsHighest ==
    \A session_id \in Sessions :
        /\ load_latest(checkpoints, session_id) \in HighestOf(session_id)
        /\ file_load_latest(file_store, session_id) \in HighestOf(session_id)
        /\ sqlite_load_latest(sqlite_rows, session_id)
              \subseteq HighestOf(session_id)

\* Planning is invoked and passes its max-steps and budget guards
PassesGuards ==
    /\ Invokes("Planning")
    /\ memory.step < memory.config.max_steps
    /\ ~(IsSome(memory.budget)
         /\ is_exceeded(Unwrap(memory.budget), memory.total_usage))

\* C13: memory.step never decreases, changes only by +1 and only in a
\* Planning invocation that passes the max-steps and budget guards, and
\* never exceeds config.max_steps + 1.
C13_StepMonotone ==
    /\ [](memory.step <= memory.config.max_steps + 1)
    /\ [][/\ memory'.step >= memory.step
          /\ memory'.step # memory.step
                => (PassesGuards /\ memory'.step = memory.step + 1)
          /\ PassesGuards => memory'.step = memory.step + 1]_vars

\* the step counter stands at the limit and the guard has turned a further
\* Planning invocation away
C13_Witness ==
    /\ memory.config.max_steps >= 2
    /\ memory.step = memory.config.max_steps
    /\ memory.trace[Len(memory.trace)].event = "MAX_STEPS"
    /\ memory.history # <<>>

\* C14: with the built-in handlers and the default table, between handler
\* invocations and at the end of the run, memory.final_answer is set
\* exactly when the engine is in Done and memory.error is set exactly when
\* the engine is in Error.
C14_AnswerAndErrorMatchState ==
    DefaultTable
        => /\ IsSome(memory.final_answer) <=> state = "Done"
           /\ IsSome(memory.error) <=> state = "Error"

\* a run under the default table that a failing LLM ended in Error after a
\* tool call had been committed
C14_Witness ==
    /\ DefaultTable
    /\ state = "Error"
    /\ IsSome(memory.error)
    /\ memory.trace[Len(memory.trace)].event = "LLM_ERROR"
    /\ memory.history # <<>>
    /\ pc = "returned"

\* C15: whatever memory Observing is entered with, it leaves
\* current_tool_call, last_observation and parallel_results empty; it
\* appends an entry for the single call exactly when both the call and the
\* observation were present, then one entry per parallel result, and keeps
\* the entries that were there.
C15_ObservingClears ==
    [][Invokes("Observing")
         => LET both == IsSome(memory.current_tool_call)
                           /\ IsSome(memory.last_observation)
                old  == Len(memory.history)
                one  == IF both THEN 1 ELSE 0
            IN  /\ memory'.current_tool_call = None
                /\ memory'.last_observation = None
                /\ memory'.parallel_results = <<>>
                /\ Len(memory'.history)
                      = old + one + Len(memory.parallel_results)
                /\ SubSeq(memory'.history, 1, old) = memory.history
                /\ both => /\ memory'.history[old + 1].tool
                                = Unwrap(memory.current_tool_call)
                           /\ memory'.history[old + 1].observation
                                = Unwrap(memory.last_observation)
                /\ \A i \in 1..Len(memory.parallel_results) :
                      /\ memory'.history[old + one + i].tool.name
                            = memory.parallel_results[i].tool_name
                      /\ memory'.history[old + one + i].observation
                            = memory.parallel_results[i].output]_vars

\* Observing has run on a memory that held a single call with its
\* observation and two parallel results besides an older entry
C15_Witness ==
    /\ last_from = "Observing"
    /\ Len(memory.history) = 4
    /\ memory.history[2].tool.name = "dummy"
    /\ memory.history[2].observation = <<"REJECTED:", "nope">>
    /\ memory.history[4].tool.name = "ghost"
    /\ memory.current_tool_call = None
    /\ memory.last_observation = None
    /\ memory.parallel_results = <<>>

\* the synthetic entry Reflecting leaves in place of the history
IsSummaryEntry(entry) ==
    /\ entry.tool.name = "[SUMMARY]"
    /\ StartsWith(entry.observation, "Compressed")

\* C16 as stated: every history entry's observation starts with
\* "SUCCESS:" or "ERROR:", and its success flag is true exactly when the
\* observation starts with "SUCCESS:".
C16_PrefixedObservations ==
    \A i \in 1..Len(memory.history) :
        LET entry == memory.history[i]
        IN  /\ StartsWith(entry.observation, "SUCCESS:")
                 \/ StartsWith(entry.observation, "ERROR:")
            /\ entry.success <=> StartsWith(entry.observation, "SUCCESS:")

\* C16 amended: every history entry is the summary entry of Reflecting
\* (success true), or its observation starts with "SUCCESS:" (success
\* true), with "ERROR:" (success false) or with "REJECTED:" (success
\* false).
C16_ObservationForms ==
    \A i \in 1..Len(memory.history) :
        LET entry == memory.history[i]
        IN  \/ IsSummaryEntry(entry) /\ entry.success
            \/ StartsWith(entry.observation, "SUCCESS:") /\ entry.success
            \/ StartsWith(entry.observation, "ERROR:") /\ ~entry.success
            \/ StartsWith(entry.observation, "REJECTED:") /\ ~entry.success

\* a history that holds a summary entry followed by the entry of a call
\* the human rejected
C16_Witness ==
    /\ Len(memory.history) = 2
    /\ IsSummaryEntry(memory.history[1])
    /\ StartsWith(memory.history[2].observation, "REJECTED:")
    /\ ~memory.history[2].success

\* C17: run() returns Ok with the final answer (a non-empty string, or
\* the sentinel when no answer was stored) in Done, AgentFailed with
\* memory.error in Error, or a structural failure; it never returns Ok
\* with an empty string.
C17_RunResult ==
    pc = "returned"
        => /\ \/ /\ state = "Done"
                 /\ result.kind = "Ok"
                 /\ result.value = IF IsSome(memory.final_answer)
                                   THEN Unwrap(memory.final_answer)
                                   ELSE <<"[No answer produced]">>
              \/ /\ state = "Error"
                 /\ result.kind = "AgentFailed"
                 /\ IsSome(memory.error)
                 /\ result.value = Unwrap(memory.error)
              \/ result.kind \in {"NoHandlerForState", "InvalidTransition",
                                  "SafetyCapExceeded"}
           /\ result.kind = "Ok" => result.value # <<>>

\* Acting is invoked with a tool call whose execution returns an error:
\* the name is not registered, or the callable fails
FailingExecution ==
    /\ Invokes("Acting")
    /\ IsSome(memory.current_tool_call)
    /\ IsSome(last_input')
    /\ \/ Unwrap(memory.current_tool_call).name \notin RegisteredTools
       \/ Unwrap(last_input').res[1] = "Err"

\* the error text of that execution
FailureText ==
    LET name == Unwrap(memory.current_tool_call).name
    IN  IF name \notin RegisteredTools
        THEN <<"Tool", name, "not found in registry">>
        ELSE Tail(Unwrap(last_input').res)

\* Observing is invoked right after Acting reported a tool failure
ObservesFailure ==
    /\ Invokes("Observing")
    /\ last_from = "Acting"
    /\ last_event = "ToolFailure"

\* C18: a tool call whose execution returns an error (an unregistered name
\* included) makes Acting emit ToolFailure, never FatalError, and set
\* last_observation to "ERROR: " + error without setting memory.error; the
\* engine moves to Observing and run() does not return. Observing then
\* appends a history entry with success false for that call and the engine
\* goes on to Planning or Reflecting.
C18_ToolFailureFlowsOn ==
    [][/\ FailingExecution
          => /\ last_event' = "ToolFailure"
             /\ memory'.last_observation = Some(<<"ERROR:">> \o FailureText)
             /\ memory'.error = memory.error
             /\ state' = "Observing"
             /\ pc' = "running"
       /\ ObservesFailure
          => /\ Len(memory'.history) = Len(memory.history) + 1
             /\ memory'.history[Len(memory'.history)].tool
                   = Unwrap(memory.current_tool_call)
             /\ memory'.history[Len(memory'.history)].observation
                   = Unwrap(memory.last_observation)
             /\ ~memory'.history[Len(memory'.history)].success
             /\ state' \in {"Planning", "Reflecting"}
             /\ pc' = "running"]_vars

\* a run that called an unregistered tool, recorded the failure and still
\* ended with an answer
C18_Witness ==
    /\ pc = "returned"
    /\ result.kind = "Ok"
    /\ state = "Done"
    /\ Len(memory.history) = 1
    /\ memory.history[1].observation
          = <<"ERROR:", "Tool", "ghost", "not found in registry">>
    /\ ~memory.history[1].success

\* what the worker of pending call i did in the ParallelActing invocation
\* of this step
WorkerOutcome(i) ==
    LET done == Unwrap(last_input').res
    IN  done[CHOOSE k \in 1..Len(done) : done[k][1] = i][2]

\* the ToolResult that pending call i yields when its worker did r
ExpectedResult(i, r) ==
    LET call == memory.pending_tool_calls[i]
        ok   == call.name \in RegisteredTools /\ r[1] = "Ok"
    IN  [tool_name |-> call.name, tool_args |-> call.args, id |-> call.id,
         success |-> ok,
         output |-> IF ok THEN <<"SUCCESS:">> \o Tail(r)
                    ELSE IF call.name \notin RegisteredTools
                    THEN <<"ERROR:", "Tool", call.name,
                           "not found in registry">>
                    ELSE <<"ERROR:">> \o Tail(r)]

\* C19: ParallelActing stores exactly one ToolResult per pending call,
\* also when a call fails or its worker aborts, empties
\* pending_tool_calls, and emits ToolSuccess exactly when at least one
\* result succeeded or the pending list was empty, otherwise ToolFailure.
C19_OneResultPerCall ==
    [][Invokes("ParallelActing")
         => LET pending == memory.pending_tool_calls
                results == memory'.parallel_results
            IN  /\ Len(results) = Len(pending)
                /\ \A i \in 1..Len(pending) :
                      /\ results[i].tool_name = pending[i].name
                      /\ results[i].id = pending[i].id
                /\ memory'.pending_tool_calls = <<>>
                /\ last_event' \in {"ToolSuccess", "ToolFailure"}
                /\ last_event' = "ToolSuccess"
                      <=> \/ pending = <<>>
                          \/ \E i \in 1..Len(results) : results[i].success]_vars

\* the pending calls whose worker returned, and the k-th of them
Returned == {i \in 1..Len(memory.pending_tool_calls) : WorkerOutcome(i) # Abort}

KthReturned(k) ==
    CHOOSE i \in Returned : Cardinality({j \in Returned : j < i}) = k - 1

\* C20: in whatever order the workers of a batch finish, the results the
\* handler stores after the join are those of the calls whose worker
\* returned, in the order of pending_tool_calls, each with the name, args
\* and id of its call and with that call's own output; nothing else of
\* the memory changes but the trace and the emptied pending list.
\* Observing then appends one entry per result, in that order, all with
\* the same step value and each with the name, args and id of its result.
C20_BatchOrderKept ==
    [][/\ Invokes("ParallelActing")
          => /\ Len(memory'.parallel_results) = Cardinality(Returned)
             /\ \A k \in 1..Cardinality(Returned) :
                   memory'.parallel_results[k]
                      = ExpectedResult(KthReturned(k),
                                       WorkerOutcome(KthReturned(k)))
             /\ [memory' EXCEPT !.trace = memory.trace,
                                !.parallel_results = memory.parallel_results,
                                !.pending_tool_calls =
                                    memory.pending_tool_calls] = memory
       /\ (Invokes("Observing") /\ last_from = "ParallelActing")
          => LET results == memory.parallel_results
                 old     == Len(memory.history)
             IN  /\ Len(memory'.history) = old + Len(results)
                 /\ \A i \in 1..Len(results) :
                       memory'.history[old + i]
                          = [step |-> memory.step,
                             tool |-> ToolCall(results[i].tool_name,
                                               results[i].tool_args,
                                               results[i].id),
                             observation |-> results[i].output,
                             success |-> results[i].success]]_vars

\* a batch of two whose second worker finished first and whose results
\* stand in the order of the calls
C20_Witness ==
    /\ last_from = "ParallelActing"
    /\ IsSome(last_input)
    /\ Len(Unwrap(last_input).res) = 2
    /\ Unwrap(last_input).res[1][1] = 2
    /\ Len(memory.parallel_results) = 2
    /\ memory.parallel_results[1].id = Some("idA")
    /\ memory.parallel_results[1].success
    /\ memory.parallel_results[2].id = Some("idB")
    /\ ~memory.parallel_results[2].success

\* C21: at every point of a run the accumulated usage satisfies
\* total_tokens = input_tokens + output_tokens, when every usage the LLM
\* reports satisfies it and the accumulator starts at zero.
C21_TotalIsSum ==
    memory.total_usage.total_tokens =
        memory.total_usage.input_tokens + memory.total_usage.output_tokens

Delivered(kind) == \E k \in 1..Len(yielded) : yielded[k].kind = kind

\* C22: in streaming mode, when the stream has ended a run that ended in
\* Error has delivered an Error output to the consumer and a run that ended
\* in Done has delivered a FinalAnswer output.
C22_TerminalOutputDelivered ==
    stream_ended =>
        /\ state = "Error" => Delivered("Error")
        /\ state = "Done" => Delivered("FinalAnswer")

\* an item the stream made itself from a failed step (engine.rs 137)
FromHandler(o) == ~(o.kind = "Error" /\ o.text # <<>> /\ o.text[1] = "InvalidTransition")

\* C23: in streaming mode, when the stream has ended the consumer has been
\* handed every output the handlers sent, once each and in the order of
\* the sends, the outputs of a step that ended with an engine error and of
\* concurrent ParallelActing workers included.
C23_SentYieldedOnce ==
    stream_ended => SelectSeq(yielded, FromHandler) = sent

\* requests in flight carry different ids, and no id is written twice
DistinctIds ==
    /\ \A c, d \in Callers :
          (c # d /\ callers[c].request.pc # "idle"
                 /\ callers[d].request.pc # "idle")
          => callers[c].request.id # callers[d].request.id
    /\ \A i, j \in 1..Len(written) : i # j => written[i] # written[j]

\* a caller holds at most one response, the one with its request's id, and
\* every response it returned answered the request it had sent
MatchingDelivery ==
    \A c \in Callers :
       /\ Len(callers[c].request.got) <= 1
       /\ \A k \in 1..Len(callers[c].request.got) :
             callers[c].request.got[k] = callers[c].request.id
       /\ \A k \in 1..Len(callers[c].log) :
             callers[c].log[k].response \in
                {None, Some(callers[c].log[k].id)}

\* a request is written only after its waiter was put in the pending map:
\* the waiter is still there, or the reader has already taken it and handed
\* the caller a response
RegisteredBeforeWrite ==
    written' # written =>
       LET id == written'[Len(written')]
       IN  \/ /\ id \in DOMAIN pending_waiters
              /\ pending_waiters[id].id = id
           \/ \E c \in Callers : /\ callers[c].request.id = id
                                  /\ callers[c].request.got = <<id>>

\* C24: concurrent MCP requests get distinct ids, the waiter of a request
\* is in the pending map before the request is written, and a response
\* reaches only the waiter whose id it carries, at most once.
C24_RequestsMatched ==
    [](DistinctIds /\ MatchingDelivery) /\ [][RegisteredBeforeWrite]_vars

\* both tasks have sent a request while the other's was in flight and each
\* got its own response back
C24_Witness ==
    /\ \A c \in Callers : \E k \in 1..Len(callers[c].log) :
          callers[c].log[k].response = Some(callers[c].log[k].id)
    /\ Len(written) >= 2
    /\ \E c \in Callers : callers[c].log # <<>> /\ callers[c].log[1].id = 2

\* the callback is asked and returns a decision of the given kind
CallbackReturns(kind) ==
    /\ Invokes("WaitingForHuman")
    /\ IsSome(last_input')
    /\ Unwrap(last_input').kind = kind

\* the call Planning proposed when it asked for approval
ProposedCall ==
    /\ IsSome(memory.current_tool_call)
    /\ IsSome(memory.pending_approval)
    /\ Unwrap(memory.current_tool_call).name =
          Unwrap(memory.pending_approval).tool_name
    /\ Unwrap(memory.current_tool_call).args =
          Unwrap(memory.pending_approval).tool_args

\* Acting is invoked on the call the human let through
ActsOnApprovedCall ==
    /\ Invokes("Acting")
    /\ last_from = "WaitingForHuman"
    /\ last_event \in {"HumanApproved", "HumanModified"}

C26_TraceGrows ==
    [][handler_calls' = handler_calls + 1 =>
          /\ Len(memory'.trace) > Len(memory.trace)
          /\ SubSeq(memory'.trace, 1, Len(memory.trace)) = memory.trace]_vars

\* no save() is in progress
Quiescent == \A w \in Writers : writers[w].pc \in {"done", "file_failed"}

\* C27: after concurrent saves on a shared store, every checkpoint whose
\* save() returned Ok is returned by load_by_id and the one saved last by
\* load_latest, on the in-memory and on the file backend.
C27_NoSaveLost ==
    (writers # << >> /\ Quiescent) =>
       /\ \A k \in 1..Len(acked.memory) :
             memory_load_by_id(session_list, acked.memory[k].checkpoint_id)
                = {acked.memory[k]}
       /\ acked.memory # <<>> =>
             memory_load_latest(session_list, SessionId)
                = Some(acked.memory[Len(acked.memory)])
       /\ \A k \in 1..Len(acked.file) :
             shared_file_load_by_id(session_file,
                                    acked.file[k].checkpoint_id)
                = <<"Ok", {acked.file[k]}>>
       /\ acked.file # <<>> =>
             shared_file_load_latest(session_file, SessionId)
                = <<"Ok", Some(acked.file[Len(acked.file)])>>

\* C28: an engine built with parallel_tools(false) never enters
\* ParallelActing and never has more than one tool executing at a time (no
\* handler invocation runs two tools).
C28_NoParallelWhenDisabled ==
    /\ [](~memory.config.parallel_tools => state # "ParallelActing")
    /\ [][~memory.config.parallel_tools =>
             Len(executed') <= Len(executed) + 1]_vars

\* C29: under the default table a run is aborted by SafetyCapExceeded only
\* after its max_steps-th planning step: while planning steps are left, the
\* LLM is still asked and an accepted final answer ends the run in Done.
C29_CapAfterLastStep ==
    result.kind = "SafetyCapExceeded" =>
        memory.step >= memory.config.max_steps

\* C30: no tool whose name is in memory.blacklisted_tools is ever passed to
\* the registry for execution, however the call was proposed.
C30_BlacklistedNeverExecuted ==
    \A k \in 1..Len(executed) : executed[k] \notin memory.blacklisted_tools

\* the names handed to ToolRegistry::execute by the step being taken
NewlyExecuted == {executed'[k] : k \in (Len(executed) + 1)..Len(executed')}

\* the handler invoked before this one was WaitingForHuman and the
\* callback let the call through
HumanLetThrough ==
    /\ last_from = "WaitingForHuman"
    /\ last_event \in {"HumanApproved", "HumanModified"}

\* C31: a tool for which the approval policy requires approval is executed
\* only in a step that directly follows a callback decision Approved or
\* Modified for that call, whichever way the call was proposed (single
\* call, low-confidence retries exhausted, parallel batch).
C31_ApprovalBeforeExecution ==
    [][\A name \in NewlyExecuted :
          needs_approval(memory.approval_policy, name) =>
             /\ HumanLetThrough
             /\ IsSome(memory.current_tool_call)
             /\ Unwrap(memory.current_tool_call).name = name
      ]_vars

\* positions of the trace records with one of the given tags
RecordsOf(tags) ==
    {i \in 1..Len(memory.trace) : memory.trace[i].event \in tags}

\* the LOW_CONFIDENCE records written since Planning last accepted a tool
\* call (LLM_TOOL_CALL or APPROVAL_REQUIRED)
RetriesSinceAccepted ==
    {i \in RecordsOf({"LOW_CONFIDENCE"}) :
        \A j \in RecordsOf({"LLM_TOOL_CALL", "APPROVAL_REQUIRED"}) : j < i}

\* C32: retry_count never exceeds max_retries, and at most max_retries
\* LowConfidence events occur before a tool call is accepted; after that
\* many a call below the threshold is accepted instead of retried.
C32_LowConfidenceBounded ==
    /\ memory.retry_count <= memory.config.max_retries
    /\ Cardinality(RetriesSinceAccepted) <= memory.config.max_retries

\* Planning is invoked, calls the LLM and gets a single ToolCall
SingleToolCall ==
    /\ Invokes("Planning")
    /\ IsSome(last_input')
    /\ Unwrap(last_input').kind \in {"streamed", "fallback"}
    /\ Unwrap(last_input').resp.kind = "ToolCall"

\* the call and the confidence of that response
ProposedTool == Unwrap(last_input').resp.tool

ProposedConfidence == Unwrap(last_input').resp.confidence

\* the three tests of handle_tool_call on the memory Planning was given
NameBlacklisted == ProposedTool.name \in memory.blacklisted_tools

RetryLeft ==
    /\ ProposedConfidence < memory.config.confidence_threshold
    /\ memory.retry_count < memory.config.max_retries

PolicyAsks == needs_approval(memory.approval_policy, ProposedTool.name)

\* C33: for a single ToolCall Planning applies the first rule that matches:
\* (1) blacklisted name: ToolBlacklisted; (2) confidence below the threshold
\* and retry_count < max_retries: retry_count + 1 and LowConfidence;
\* (3) the policy needs approval: pending_approval and current_tool_call
\* set, HumanApprovalRequired; (4) otherwise current_tool_call set,
\* pending_tool_calls cleared, LlmToolCall. Rules (1) and (2) leave
\* current_tool_call and pending_approval as they were.
C33_ToolCallPriority ==
    [][SingleToolCall =>
          IF NameBlacklisted
          THEN /\ last_event' = "ToolBlacklisted"
               /\ memory'.retry_count = memory.retry_count
               /\ memory'.current_tool_call = memory.current_tool_call
               /\ memory'.pending_approval = memory.pending_approval
          ELSE IF RetryLeft
          THEN /\ last_event' = "LowConfidence"
               /\ memory'.retry_count = memory.retry_count + 1
               /\ memory'.current_tool_call = memory.current_tool_call
               /\ memory'.pending_approval = memory.pending_approval
          ELSE IF PolicyAsks
          THEN /\ last_event' = "HumanApprovalRequired"
               /\ memory'.current_tool_call = Some(ProposedTool)
               /\ IsSome(memory'.pending_approval)
               /\ Unwrap(memory'.pending_approval).tool_name =
                     ProposedTool.name
               /\ Unwrap(memory'.pending_approval).tool_args =
                     ProposedTool.args
               /\ memory'.retry_count = memory.retry_count
          ELSE /\ last_event' = "LlmToolCall"
               /\ memory'.current_tool_call = Some(ProposedTool)
               /\ memory'.pending_tool_calls = <<>>
               /\ memory'.pending_approval = memory.pending_approval
               /\ memory'.retry_count = memory.retry_count
      ]_vars

\* a call below the threshold, proposed when no retry is left, went on to
\* the approval rule and waits for the human
C33_Witness ==
    /\ last_from = "Planning"
    /\ last_event = "HumanApprovalRequired"
    /\ IsSome(last_input)
    /\ Unwrap(last_input).resp.confidence < memory.config.confidence_threshold
    /\ memory.retry_count = memory.config.max_retries
    /\ IsSome(memory.pending_approval)
    /\ state = "WaitingForHuman"

\* Planning is invoked, passes its guards and calls the LLM; the exchange
\* is of the given kind
LlmExchange(kind) ==
    /\ Invokes("Planning")
    /\ IsSome(last_input')
    /\ Unwrap(last_input').kind = kind

\* a memory without its trace
Untraced(mem) == [mem EXCEPT !.trace = <<>>]

EndedInError ==
    /\ yielded # <<>>
    /\ yielded[Len(yielded)].kind = "Error"

\* C35: run_streaming executes at most 3 x max_steps steps, so that under
\* a user-added cycle the stream ends with an error instead of going on;
\* and the stream ends only in a terminal state or after a failed step.
C35_StreamBounded ==
    /\ handler_calls <= 3 * memory.config.max_steps
    /\ stream_ended => (state \in TerminalStates \/ EndedInError)

\* the caller is inside send_request_internal with its waiter registered
AwaitsResponse(c) == callers[c].request.pc \in {"registered", "waiting"}

\* every entry of the pending map belongs to a request still in progress
NoEntryLeaks ==
    \A id \in DOMAIN pending_waiters :
       LET c == pending_waiters[id].caller
       IN  AwaitsResponse(c) /\ callers[c].request.id = id

\* C36: every MCP request eventually returns a response or an error, also
\* when the reader loop stops or the write of the request fails, and the
\* pending map keeps no entry of a request that has returned.
C36_RequestsReturn ==
    /\ \A c \in Callers :
          AwaitsResponse(c) ~> (callers[c].request.pc = "idle")
    /\ []NoEntryLeaks

\* the step values of the history never go down
StepsNonDecreasing ==
    \A i, j \in 1..Len(memory.history) :
       i <= j => memory.history[i].step <= memory.history[j].step

\* C37: Reflecting replaces the history, whatever its length N, by one
\* entry {step: the current step, tool [SUMMARY] with empty args, success}
\* whose observation reports N, resets retry_count and emits ReflectDone;
\* step, total_usage, current_tool_call, pending_tool_calls, final_answer
\* and error are left alone; the step values of the history stay
\* non-decreasing.
C37_ReflectingCompresses ==
    /\ [][Invokes("Reflecting") =>
             /\ Len(memory'.history) = 1
             /\ memory'.history[1].step = memory.step
             /\ memory'.history[1].tool = ToolCall("[SUMMARY]", "", None)
             /\ memory'.history[1].success
             /\ memory'.history[1].observation[1] = "Compressed"
             /\ memory'.history[1].observation[2] =
                   ToString(Len(memory.history))
             /\ memory'.retry_count = 0
             /\ last_event' = "ReflectDone"
             /\ memory'.step = memory.step
             /\ memory'.total_usage = memory.total_usage
             /\ memory'.current_tool_call = memory.current_tool_call
             /\ memory'.pending_tool_calls = memory.pending_tool_calls
             /\ memory'.final_answer = memory.final_answer
             /\ memory'.error = memory.error
       ]_vars
    /\ []StepsNonDecreasing

\* Reflecting has run on a history of two entries, a summary of an earlier
\* reflection among them, and left the one entry that reports two
C37_Witness ==
    /\ last_from = "Reflecting"
    /\ last_event = "ReflectDone"
    /\ Len(memory.history) = 1
    /\ memory.history[1].tool.name = "[SUMMARY]"
    /\ memory.history[1].observation[2] = "2"
    /\ memory.history[1].step = memory.step
    /\ memory.retry_count = 0
    /\ state = "Planning"

\* observing.rs 66-67 on the memory Observing was given
ReflectionDue ==
    /\ memory.config.reflect_every_n_steps > 0
    /\ memory.step % memory.config.reflect_every_n_steps = 0

\* C38: Observing emits NeedsReflection exactly when reflect_every_n_steps
\* is positive and divides step, and Continue otherwise, whether the
\* observed call succeeded, failed or was rejected.
C38_ReflectionTrigger ==
    [][Invokes("Observing") =>
          /\ last_event' \in {"NeedsReflection", "Continue"}
          /\ (last_event' = "NeedsReflection") <=> ReflectionDue
      ]_vars

\* Observing recorded a rejected call at step 2 under an interval of 2 and
\* asked for reflection
C38_Witness ==
    /\ last_from = "Observing"
    /\ last_event = "NeedsReflection"
    /\ memory.step = 2
    /\ memory.config.reflect_every_n_steps = 2
    /\ memory.history # <<>>
    /\ \E i \in 1..Len(memory.history) :
          memory.history[i].observation = <<"REJECTED:", "nope">>
    /\ state = "Reflecting"

\* the wait the backoff rule prescribes after failed attempt k with error e
PrescribedWait(e, k) ==
    IF base_wait(e) * 2^k < 60 THEN base_wait(e) * 2^k ELSE 60

\* C39: the wait after failed attempt k is min(base x 2^k, 60) seconds,
\* with base 5 for a rate-limit error and 1 otherwise, for every k below
\* max_retries however large; no wait follows the last attempt or an auth
\* error, and the call returns a result.
C39_BackoffWaits ==
    /\ Len(waits) =
          Cardinality({i \in 1..Len(inner_calls) :
                          IsTransientFailure(inner_calls[i])
                             /\ i <= max_retries})
    /\ \A i \in 1..Len(waits) :
          waits[i] = PrescribedWait(Tail(inner_calls[i]), i - 1)
    /\ retry_result # <<>> => retry_result[1] \in {"Ok", "Err"}

\* positions of the messages with the given role
WithRole(role) == {p \in 1..Len(messages) : messages[p].role = role}

\* the messages before the history part: system (if any) and user
HeaderLen == IF memory.system_prompt # "" THEN 2 ELSE 1

\* the history entry the tool message at position p stands for: tool
\* messages come in history order
EntryOf(p) == Cardinality({q \in WithRole("tool") : q <= p})

\* the assistant message that directly precedes the group of position p
AssistantBefore(p) ==
    CHOOSE a \in WithRole("assistant") :
       /\ a < p
       /\ \A b \in WithRole("assistant") : b < p => b <= a

\* C40: build_messages yields a system message iff system_prompt is not
\* empty, then one user message with the task, then for every maximal run
\* of consecutive history entries with the same step one assistant message
\* listing all tool calls of the run followed by one tool message per
\* entry in history order; each tool message's tool_call_id is the id of a
\* call of the assistant message before its group, and there are as many
\* tool messages as history entries.
C40_MessagesGrouped ==
    messages # <<>> =>
       /\ WithRole("system") =
             (IF memory.system_prompt # "" THEN {1} ELSE {})
       /\ \A p \in WithRole("system") :
             messages[p].content = Some(memory.system_prompt)
       /\ WithRole("user") = {HeaderLen}
       /\ messages[HeaderLen].content = Some(memory.task)
       /\ \A p \in (HeaderLen + 1)..Len(messages) :
             messages[p].role \in {"assistant", "tool"}
       /\ Len(messages) > HeaderLen
             => messages[HeaderLen + 1].role = "assistant"
       /\ Cardinality(WithRole("tool")) = Len(memory.history)
       /\ \A p \in WithRole("tool") :
             LET entry == memory.history[EntryOf(p)]
                 a     == AssistantBefore(p)
             IN  /\ messages[p].tool_call_id = Some(tool_id(entry))
                 /\ messages[p].content = Some(entry.observation)
                 /\ messages[p].name = Some(entry.tool.name)
                 /\ p - a \in 1..Len(messages[a].tool_calls)
                 /\ messages[a].tool_calls[p - a].id = tool_id(entry)
                 /\ messages[a].tool_calls[p - a].name = entry.tool.name
       /\ \A a \in WithRole("assistant") :
             /\ messages[a].tool_calls # <<>>
             /\ \A j \in 1..Len(messages[a].tool_calls) :
                   /\ a + j \in WithRole("tool")
                   /\ AssistantBefore(a + j) = a
       /\ \A p, q \in WithRole("tool") :
             EntryOf(q) = EntryOf(p) + 1 =>
                ((AssistantBefore(p) = AssistantBefore(q))
                    <=> (memory.history[EntryOf(p)].step =
                            memory.history[EntryOf(q)].step))

\* the messages of a memory with a system prompt and three entries, two of
\* them from one step: system, user, an assistant message with two calls
\* and their two results, an assistant message with one call and its result
C40_Witness ==
    /\ Len(messages) = 7
    /\ Len(memory.history) = 3
    /\ memory.history[1].step = memory.history[2].step
    /\ memory.history[2].step < memory.history[3].step
    /\ memory.history[1].tool.id = None
    /\ [p \in 1..7 |-> messages[p].role] =
          <<"system", "user", "assistant", "tool", "tool", "assistant",
            "tool">>
    /\ Len(messages[3].tool_calls) = 2
    /\ messages[4].tool_call_id = Some("legacy")

====
